---- MODULE Spec2Model ----
(***************************************************************************)
(* vtkDecimatePolylineFilter::RequestData as a state machine.              *)
(*                                                                         *)
(* One run of RequestData over an input vtkPolyData (points + line cells). *)
(* Control points (pc):                                                    *)
(*   "start"  entry of RequestData (lines 123-148)                         *)
(*   "loop"   head of the for loop over the line cells (184-190)           *)
(*   "seed"   polyline built, before the seeding loop (197-209)            *)
(*   "reduce" head of the while loop (213-216)                             *)
(*   "emit"   after the while loop, before InsertNextCell (251-253)        *)
(*   "walk"   head of the emit walk (258)                                  *)
(*   "finish" after the for loop (282-289)                                 *)
(*   "done"   RequestData has returned                                     *)
(*                                                                         *)
(* Coordinates are integers.  An error value is the perpendicular distance *)
(* of a point to a line; it is held as the exact rational <<num, den>> of  *)
(* its square (squaring keeps the order of non-negative values, and the    *)
(* MaximumError values used here, 0, 1 and VTK_DOUBLE_MAX, compare the     *)
(* same way against a distance and against its square).                    *)
(* TargetReduction is held in tenths (0, 5, 9 for 0.0, 0.5, 0.9); for the  *)
(* polyline sizes explored the double expression 1.0 - cur/size is either  *)
(* exact (cur/size = 1/2) or never equal to the target.                    *)
(***************************************************************************)
EXTENDS Integers, Sequences, FiniteSets, TLC

VARIABLES
  inputLines,        \* input->GetLines(): [null, cells]
  inputPoints,       \* input->GetPoints(): [null, pts]
  TargetReduction,   \* this->TargetReduction, in tenths
  MaximumError,      \* this->MaximumError
  pc,                \* control point of RequestData
  cellIdx,           \* position of lineIter (0-based input cell index)
  firstVertexIndex,  \* vtkIdType firstVertexIndex
  polylineSize,      \* vtkIdType polylineSize
  polyline,          \* the Polyline under reduction
  PriorityQueue,     \* this->PriorityQueue: set of [priority, id]
  currentNumPts,     \* vtkIdType currentNumPts
  vertex,            \* Polyline::Vertex* vertex of the emit walk (slot index)
  newPts,            \* vtkPoints* newPts: sequence of coordinates
  newLines,          \* vtkCellArray* newLines: sequence of [npts, pts]
  outPD,             \* output point data: new point id -> copied input point id
  outCD,             \* output cell data: new cell id -> copied input record index
  pointIdMap,        \* std::map<vtkIdType, vtkIdType> pointIdMap
  output,            \* output->Points / output->Lines after SetPoints / SetLines
  result,            \* return value of RequestData
  aborted,           \* history: the cell index at which CheckAbort() returned true
  removed,           \* history: what the last Remove removed, and its error then
  excluded,          \* history: the slots of the polyline whose computed error exceeded MaximumError
  walked,            \* history: per output cell, the vertex->id values the walk met
  Nodes,             \* vtkPiecewiseFunction: Internal->Nodes, sequence of [X, Y, Midpoint, Sharpness]
  Range,             \* vtkPiecewiseFunction: Range[2]
  AllowDuplicateScalars, \* vtkPiecewiseFunction: AllowDuplicateScalars
  pwfCall,           \* history: the last call on the piecewise function, [op, x, ret]
  NumberOfStates,    \* vtkButtonRepresentation: NumberOfStates
  State,             \* vtkButtonRepresentation: State
  buttonCall         \* history: the last call on the button representation

\* the variables of the decimation filter
filterVars == << inputLines, inputPoints, TargetReduction, MaximumError, pc, cellIdx,
                 firstVertexIndex, polylineSize, polyline, PriorityQueue,
                 currentNumPts, vertex, newPts, newLines, outPD, outCD, pointIdMap,
                 output, result, aborted, removed, excluded, walked >>

\* the variables of the piecewise function
pwfVars == << Nodes, Range, AllowDuplicateScalars, pwfCall >>

\* the variables of the button representation
buttonVars == << NumberOfStates, State, buttonCall >>

vars == << filterVars, pwfVars, buttonVars >>

(***************************************************************************)
(* Bounds of the explored inputs.                                          *)
(***************************************************************************)
\* largest number of line cells in the input
MaxCells == 2
\* largest number of point identifiers in one line cell
MaxLen == 4
\* number of points of the input point set
NumPts == 4

\* nullptr, and the "no id" value of vtkPriorityQueue::Pop
NULL == -1
\* this->MaximumError = VTK_DOUBLE_MAX
VTK_DOUBLE_MAX == 2147483647
\* denominator of the TargetReduction values (tenths)
TenthsPerUnit == 10
\* this->TargetReduction = 0.90, in tenths
DefaultTargetReduction == 9

(***************************************************************************)
(* Geometry: vtkMath / vtkLine primitives on integer 3-vectors.            *)
(***************************************************************************)
Sub(a, b) == << a[1] - b[1], a[2] - b[2], a[3] - b[3] >>

Dot(a, b) == a[1] * b[1] + a[2] * b[2] + a[3] * b[3]

Cross(a, b) == << a[2] * b[3] - a[3] * b[2],
                  a[3] * b[1] - a[1] * b[3],
                  a[1] * b[2] - a[2] * b[1] >>

\* vtkMath::Distance2BetweenPoints
Distance2BetweenPoints(p, q) == Dot(Sub(p, q), Sub(p, q))

\* vtkLine::DistanceToLine(x, p1, p2), p1 # p2: perpendicular distance of x
\* to the infinite line through p1 and p2, as the rational of its square.
DistanceToLine(x, p1, p2) ==
  LET c == Cross(Sub(x, p1), Sub(p2, p1))
  IN  << Dot(c, c), Distance2BetweenPoints(p1, p2) >>

\* a/b < c/d for rationals with a, c >= 0 and b, d > 0, by the continued
\* fraction expansion (no product is formed)
RECURSIVE RatLess(_, _, _, _)
RatLess(a, b, c, d) ==
  LET q1 == a \div b
      q2 == c \div d
      r1 == a % b
      r2 == c % d
  IN  IF q1 # q2 THEN q1 < q2
      ELSE IF r2 = 0 THEN FALSE
      ELSE IF r1 = 0 THEN TRUE
      ELSE RatLess(d, r2, b, r1)

\* error < other, on error values
ErrLess(e, f) == RatLess(e[1], e[2], f[1], f[2])

\* the square of a MaximumError value (VTK_DOUBLE_MAX stays the largest value)
SquareOf(m) == IF m = VTK_DOUBLE_MAX THEN VTK_DOUBLE_MAX ELSE m * m

\* a variant: error < this->MaximumError
WithinMaximumErrorStrict(e, m) == RatLess(e[1], e[2], SquareOf(m), 1)

\* error <= this->MaximumError
WithinMaximumError(e, m) == ~ RatLess(SquareOf(m), 1, e[1], e[2])

ErrIsZero(e) == e[1] = 0

(***************************************************************************)
(* class vtkDecimatePolylineFilter::Polyline                               *)
(***************************************************************************)
NoPolyline == [Size |-> 0, Vertices |-> << >>, IsLoop |-> FALSE]

\* a variant: the slots take the identifiers from the end of vertexOrdering
PolylineNewReversed(vertexOrdering, size) ==
  [Size |-> size,
   Vertices |->
     [idx \in 0 .. size - 1 |->
        [index |-> idx,
         id |-> vertexOrdering[size - idx],
         prev |-> IF idx > 0 THEN idx - 1 ELSE NULL,
         next |-> IF idx < size - 1 THEN idx + 1 ELSE NULL,
         removable |-> ~ (idx = 0 \/ idx = size - 1)]],
   IsLoop |-> vertexOrdering[1] = vertexOrdering[size]]

\* Polyline(const vtkIdType* vertexOrdering, vtkIdType size);
\* vertexOrdering is a sequence, slot idx holds vertexOrdering[idx + 1]
PolylineNew(vertexOrdering, size) ==
  [Size |-> size,
   Vertices |->
     [idx \in 0 .. size - 1 |->
        [index |-> idx,
         id |-> vertexOrdering[idx + 1],
         prev |-> IF idx > 0 THEN idx - 1 ELSE NULL,
         next |-> IF idx < size - 1 THEN idx + 1 ELSE NULL,
         removable |-> ~ (idx = 0 \/ idx = size - 1)]],
   IsLoop |-> vertexOrdering[1] = vertexOrdering[size]]

\* a variant: prev.next is set, next.prev is left as it was
RemoveForwardOnly(pl, vertexIdx) ==
  LET p == pl.Vertices[vertexIdx].prev
      n == pl.Vertices[vertexIdx].next
  IN  [pl EXCEPT !.Size = @ - 1,
                 !.Vertices = [idx \in DOMAIN pl.Vertices |->
                    IF idx = p THEN [pl.Vertices[idx] EXCEPT !.next = n]
                    ELSE pl.Vertices[idx]]]

\* void Remove(vtkIdType vertexIdx)
Remove(pl, vertexIdx) ==
  LET p == pl.Vertices[vertexIdx].prev
      n == pl.Vertices[vertexIdx].next
  IN  [pl EXCEPT !.Size = @ - 1,
                 !.Vertices = [idx \in DOMAIN pl.Vertices |->
                    IF idx = p THEN [pl.Vertices[idx] EXCEPT !.next = n]
                    ELSE IF idx = n THEN [pl.Vertices[idx] EXCEPT !.prev = p]
                    ELSE pl.Vertices[idx]]]

\* a variant: with coinciding neighbours the error is the distance to them
ComputeErrorToNeighbour(points, pl, idx) ==
  LET x1 == points[pl.Vertices[pl.Vertices[idx].prev].id]
      x  == points[pl.Vertices[idx].id]
      x2 == points[pl.Vertices[pl.Vertices[idx].next].id]
  IN  IF Distance2BetweenPoints(x1, x2) = 0
      THEN << Distance2BetweenPoints(x, x1), 1 >>
      ELSE DistanceToLine(x, x1, x2)

\* double ComputeError(vtkPolyData* input, Polyline* polyline, vtkIdType idx)
ComputeError(points, pl, idx) ==
  LET x1 == points[pl.Vertices[pl.Vertices[idx].prev].id]
      x  == points[pl.Vertices[idx].id]
      x2 == points[pl.Vertices[pl.Vertices[idx].next].id]
  IN  IF Distance2BetweenPoints(x1, x2) = 0
      THEN << 0, 1 >>
      ELSE DistanceToLine(x, x1, x2)

(***************************************************************************)
(* vtkPriorityQueue: a set of entries [priority, id]                       *)
(***************************************************************************)
\* Insert(priority, id)
Insert(q, priority, id) == q \cup {[priority |-> priority, id |-> id]}

\* DeleteId(id): no-op when id has no entry
DeleteId(q, id) == {e \in q : e.id # id}

\* the entries Pop may return: those of lowest priority (which of several
\* equal ones is returned is the heap's business)
PopCandidates(q) == {e \in q : \A f \in q : ~ ErrLess(f.priority, e.priority)}

\* Reset()
Reset(q) == {}

(***************************************************************************)
(* vtkDecimatePolylineFilter::RequestData, pieces                          *)
(***************************************************************************)
\* a variant: every removable slot is queued, without the MaximumError test
RECURSIVE SeedQueueAll(_, _, _, _, _)
SeedQueueAll(q, points, pl, maxErr, vertexIdx) ==
  IF vertexIdx >= pl.Size THEN q
  ELSE SeedQueueAll(IF pl.Vertices[vertexIdx].removable
                    THEN Insert(q, ComputeError(points, pl, vertexIdx), vertexIdx)
                    ELSE q,
                    points, pl, maxErr, vertexIdx + 1)

\* a variant: the slot index, not the error, is the priority of a seeded entry
RECURSIVE SeedQueueByIndex(_, _, _, _, _)
SeedQueueByIndex(q, points, pl, maxErr, vertexIdx) ==
  IF vertexIdx >= pl.Size THEN q
  ELSE SeedQueueByIndex(IF /\ pl.Vertices[vertexIdx].removable
                           /\ WithinMaximumError(ComputeError(points, pl, vertexIdx), maxErr)
                        THEN Insert(q, << vertexIdx, 1 >>, vertexIdx)
                        ELSE q,
                        points, pl, maxErr, vertexIdx + 1)

\* the seeding loop: for (vertexIdx = 0; vertexIdx < polyline->Size; ++vertexIdx)
RECURSIVE SeedQueue(_, _, _, _, _)
SeedQueue(q, points, pl, maxErr, vertexIdx) ==
  IF vertexIdx >= pl.Size THEN q
  ELSE LET error == ComputeError(points, pl, vertexIdx)
           q1 == IF pl.Vertices[vertexIdx].removable
                 THEN IF WithinMaximumError(error, maxErr)
                      THEN Insert(q, error, vertexIdx)
                      ELSE q
                 ELSE q
       IN  SeedQueue(q1, points, pl, maxErr, vertexIdx + 1)

\* a variant: <= in place of <
BelowTargetOrEqual(cur, size, tr) == (size - cur) * TenthsPerUnit <= tr * size

\* a variant: the quotient taken on the integers, without the casts to double
BelowTargetIntegerQuotient(cur, size, tr) ==
  (1 - (cur \div size)) * TenthsPerUnit < tr

\* 1.0 - currentNumPts / polylineSize < this->TargetReduction
BelowTarget(cur, size, tr) == (size - cur) * TenthsPerUnit < tr * size

\* a variant: both minimum counts one too low
AboveMinimumOffByOne(cur, isLoop) == (~ isLoop /\ cur > 1) \/ (isLoop /\ cur > 2)

\* (!IsLoop && currentNumPts > 2) || (IsLoop && currentNumPts > 3)
AboveMinimum(cur, isLoop) == (~ isLoop /\ cur > 2) \/ (isLoop /\ cur > 3)

\* the condition of the while loop
WhileCondition(cur, size, isLoop, tr) ==
  BelowTarget(cur, size, tr) /\ AboveMinimum(cur, isLoop)

\* a variant: the neighbour's entry is deleted and never put back
UpdateNeighbourDeleteOnly(q, points, pl, maxErr, nbIdx) ==
  IF pl.Vertices[nbIdx].removable THEN DeleteId(q, nbIdx) ELSE q

\* a variant: the neighbour's old entry is not deleted before the new one goes in
UpdateNeighbourNoDelete(q, points, pl, maxErr, nbIdx) ==
  IF pl.Vertices[nbIdx].removable
  THEN IF WithinMaximumError(ComputeError(points, pl, nbIdx), maxErr)
       THEN Insert(q, ComputeError(points, pl, nbIdx), nbIdx)
       ELSE q
  ELSE q

\* a variant: the neighbour is inserted again without the MaximumError test
UpdateNeighbourAlwaysInsert(q, points, pl, maxErr, nbIdx) ==
  IF pl.Vertices[nbIdx].removable
  THEN Insert(DeleteId(q, nbIdx), ComputeError(points, pl, nbIdx), nbIdx)
  ELSE q

\* the update of one former neighbour of the removed vertex: recompute,
\* DeleteId, Insert when within MaximumError
UpdateNeighbour(q, points, pl, maxErr, nbIdx) ==
  IF pl.Vertices[nbIdx].removable
  THEN LET error == ComputeError(points, pl, nbIdx)
           q1 == DeleteId(q, nbIdx)
       IN  IF WithinMaximumError(error, maxErr)
           THEN Insert(q1, error, nbIdx)
           ELSE q1
  ELSE q

\* outCD->CopyData(inCD, fromId, toId): the record of new cell toId becomes the
\* input record at index fromId (a record is named by its input index)
CopyData(cd, fromId, toId) ==
  [i \in 1 .. (IF toId + 1 > Len(cd) THEN toId + 1 ELSE Len(cd)) |->
     IF i = toId + 1 THEN fromId ELSE cd[i]]

\* a variant: key and value exchanged
MapInsertSwapped(map, id, newId) ==
  [k \in DOMAIN map \cup {newId} |-> IF k = newId THEN id ELSE map[k]]

\* pointIdMap[id] = newId
MapInsert(map, id, newId) ==
  [k \in DOMAIN map \cup {id} |-> IF k = id THEN newId ELSE map[k]]

\* the slots met on the way from slot v along the next links
RECURSIVE WalkFrom(_, _)
WalkFrom(pl, v) ==
  IF v = NULL THEN {} ELSE {v} \cup WalkFrom(pl, pl.Vertices[v].next)

\* the slots met on the way from slot v along the next links, in the order met
RECURSIVE WalkSeq(_, _)
WalkSeq(pl, v) ==
  IF v = NULL THEN << >> ELSE << v >> \o WalkSeq(pl, pl.Vertices[v].next)

\* the slots still linked into the polyline
LinkedSlots(pl) == WalkFrom(pl, 0)

\* those of the slots that are removable and whose error exceeds maxErr
ExceedingSlots(points, pl, maxErr, slots) ==
  {v \in slots : /\ pl.Vertices[v].removable
                 /\ ~ WithinMaximumError(ComputeError(points, pl, v), maxErr)}

\* the input, and the objects the filter does not use, are left untouched by every step
InputUnchanged ==
  /\ UNCHANGED << inputLines, inputPoints, TargetReduction, MaximumError >>
  /\ UNCHANGED << pwfVars, buttonVars >>

\* inputLines->GetNumberOfCells()
numLines == Len(inputLines.cells)

\* inputPoints->GetNumberOfPoints()
numPts == Cardinality(DOMAIN inputPoints.pts)

\* a variant: the test of numLines left out
NothingToDoButForLines == inputLines.null \/ inputPoints.null \/ numPts < 1

\* if (!inputLines || !inputPoints) return 1; if (numLines < 1 || numPts < 1) return 1;
NothingToDo == inputLines.null \/ inputPoints.null \/ numLines < 1 \/ numPts < 1

\* lineIter->GetCurrentCell(polylineSize, polyLineVerts)
CurrentCell == inputLines.cells[cellIdx + 1]

(***************************************************************************)
(* The inputs explored                                                     *)
(***************************************************************************)
\* the point sets: id -> coordinates
Geometries == {"scenario", "collinear", "bend", "fold"}

PointAt(g, i) ==
  CASE g = "scenario"  -> << 100 * i, IF i = 1 THEN 1 ELSE 0, 0 >>
    [] g = "collinear" -> << i, 0, 0 >>
    [] g = "bend"      -> << IF i < 2 THEN i ELSE 2,
                             IF i < 2 THEN 0 ELSE i - 2,
                             IF i < 2 THEN 0 ELSE i - 2 >>
    [] g = "fold"      -> << IF i % 2 = 1 THEN 3 ELSE 0, IF i % 2 = 1 THEN i ELSE 0, 0 >>

PointSets == {[i \in 0 .. NumPts - 1 |-> PointAt(g, i)] : g \in Geometries}

\* a line cell of len identifiers from point 1 on, going round the point set;
\* a closed one ends where it began
Path(len, closed) ==
  [i \in 1 .. len |-> IF closed /\ i = len THEN 1 % NumPts ELSE i % NumPts]

\* the open polyline 0, 1, 2, 3 of the scenario
ScenarioCell == << 0, 1, 2, 3 >>

Cells == {Path(l, c) : l \in 1 .. MaxLen, c \in BOOLEAN} \cup {ScenarioCell}

CellLists == UNION {[1 .. n -> Cells] : n \in 0 .. MaxCells}

TargetReductions == {0, 5, DefaultTargetReduction}

MaximumErrors == {0, 1, VTK_DOUBLE_MAX}

(***************************************************************************)
(* vtkPiecewiseFunction.  A function is [Nodes, Range]; a node is          *)
(* [X, Y, Midpoint, Sharpness]; midpoint and sharpness are in tenths; a    *)
(* node index is 0-based as in the code, Nodes[i] of the code being        *)
(* Nodes[i + 1] here.                                                      *)
(***************************************************************************)
\* largest number of nodes of the explored functions
MaxNodes == 3

\* the X, Y, midpoint and sharpness values of the explored calls
PwfXs == 0 .. 2
PwfYs == {0, 1}
Midpoints == {5, 10, 11}
Sharpnesses == {-1, 0}

NewNode(x, y, midpoint, sharpness) ==
  [X |-> x, Y |-> y, Midpoint |-> midpoint, Sharpness |-> sharpness]

\* std::stable_sort(Nodes.begin(), Nodes.end(), CompareNodes), CompareNodes
\* being node1->X < node2->X: nodes of equal X keep their order
RECURSIVE StableSort(_)
StableSort(nodes) ==
  IF nodes = << >> THEN << >>
  ELSE LET least == CHOOSE x \in {nodes[i].X : i \in DOMAIN nodes} :
                      \A j \in DOMAIN nodes : x <= nodes[j].X
       IN  SelectSeq(nodes, LAMBDA n : n.X = least)
           \o StableSort(SelectSeq(nodes, LAMBDA n : n.X # least))

\* UpdateRange(): the Range that the nodes determine
UpdateRange(nodes) ==
  IF Len(nodes) > 0 THEN << nodes[1].X, nodes[Len(nodes)].X >> ELSE << 0, 0 >>

\* SortAndUpdateRange()
SortAndUpdateRange(f) ==
  LET sorted == StableSort(f.Nodes)
  IN  [Nodes |-> sorted, Range |-> UpdateRange(sorted)]

\* a variant: the search runs from the last node down
LastAtX(nodes, x) ==
  LET hits == {i \in DOMAIN nodes : nodes[i].X = x}
  IN  IF hits = {} THEN Len(nodes)
      ELSE (CHOOSE i \in hits : \A j \in hits : i >= j) - 1

\* the loop for (i = 0; i < size; i++) if (Nodes[i]->X == x) break: the value
\* of i after the loop
FirstAtX(nodes, x) ==
  LET hits == {i \in DOMAIN nodes : nodes[i].X = x}
  IN  IF hits = {} THEN Len(nodes)
      ELSE (CHOOSE i \in hits : \A j \in hits : i <= j) - 1

\* the same loop with the test Nodes[i]->X == x && Nodes[i]->Y == y
FirstAtXY(nodes, x, y) ==
  LET hits == {i \in DOMAIN nodes : nodes[i].X = x /\ nodes[i].Y = y}
  IN  IF hits = {} THEN Len(nodes)
      ELSE (CHOOSE i \in hits : \A j \in hits : i <= j) - 1

\* Nodes.erase(Nodes.begin() + id), for id < size
EraseAt(nodes, id) == SubSeq(nodes, 1, id) \o SubSeq(nodes, id + 2, Len(nodes))

\* RemovePointByIndex(id) for the index of an existing node, as RemovePoint
\* calls it: the range is updated when the first or the last node went
RemovePointByIndex(f, id) ==
  LET erased == EraseAt(f.Nodes, id)
  IN  [Nodes |-> erased,
       Range |-> IF id = 0 \/ id = Len(erased) THEN UpdateRange(erased) ELSE f.Range]

\* RemovePoint(x): the function afterwards and the returned value
RemovePoint(f, x) ==
  LET i == FirstAtX(f.Nodes, x)
  IN  IF i = Len(f.Nodes)
      THEN [f |-> f, ret |-> -1]
      ELSE [f |-> RemovePointByIndex(f, i), ret |-> i]

\* midpoint < 0.0 || midpoint > 1.0
MidpointOutOfRange(midpoint) == midpoint < 0 \/ midpoint > TenthsPerUnit

\* a variant: only the upper limit of the sharpness is tested
SharpnessAboveRangeOnly(sharpness) == sharpness > TenthsPerUnit

\* sharpness < 0.0 || sharpness > 1.0
SharpnessOutOfRange(sharpness) == sharpness < 0 \/ sharpness > TenthsPerUnit

\* AddPoint(x, y, midpoint, sharpness): the function afterwards and the
\* returned value
AddPoint(f, allowDuplicateScalars, x, y, midpoint, sharpness) ==
  IF MidpointOutOfRange(midpoint) THEN [f |-> f, ret |-> -1]
  ELSE IF SharpnessOutOfRange(sharpness) THEN [f |-> f, ret |-> -1]
  ELSE LET f1 == IF ~ allowDuplicateScalars THEN RemovePoint(f, x).f ELSE f
           f2 == SortAndUpdateRange(
                   [Nodes |-> Append(f1.Nodes, NewNode(x, y, midpoint, sharpness)),
                    Range |-> f1.Range])
           i == FirstAtXY(f2.Nodes, x, y)
       IN  [f |-> f2, ret |-> IF i < Len(f2.Nodes) THEN i ELSE -1]

\* a variant: the node is set and left where it is, without SortAndUpdateRange
SetNodeValueInPlace(f, index, val) ==
  IF index < 0 \/ index >= Len(f.Nodes) THEN [f |-> f, ret |-> -1]
  ELSE [f |-> [Nodes |-> [f.Nodes EXCEPT ![index + 1] = val], Range |-> f.Range],
        ret |-> 1]

\* SetNodeValue(index, val): the function afterwards and the returned value
SetNodeValue(f, index, val) ==
  IF index < 0 \/ index >= Len(f.Nodes) THEN [f |-> f, ret |-> -1]
  ELSE LET oldX == f.Nodes[index + 1].X
           set == [Nodes |-> [f.Nodes EXCEPT ![index + 1] = val], Range |-> f.Range]
       IN  [f |-> IF oldX # val.X THEN SortAndUpdateRange(set) ELSE set, ret |-> 1]

\* FillFromDataPointer(nb, ptr), ptr holding nb pairs << x, y >>
FillFromDataPointer(f, nb, ptr) ==
  IF nb <= 0 THEN f
  ELSE SortAndUpdateRange(
         [Nodes |-> [i \in 1 .. nb |-> NewNode(ptr[i][1], ptr[i][2], 5, 0)],
          Range |-> << 0, 0 >>])

\* RemoveAllPoints()
RemoveAllPoints(f) == SortAndUpdateRange([Nodes |-> << >>, Range |-> f.Range])

\* the nodes without the last one
DropLast(nodes) == SubSeq(nodes, 1, Len(nodes) - 1)

\* a variant: the guard is id >= size
RemovePointByIndexGuarded(f, id) ==
  IF id >= Len(f.Nodes) THEN {[f |-> f, ret |-> 0]}
  ELSE {[f |-> RemovePointByIndex(f, id), ret |-> 1]}

\* bool RemovePointByIndex(size_t id), the public call: the functions it can
\* leave and the value returned with each (1 for true, 0 for false).  The
\* guard is id > size, so id == size reaches delete Nodes[id] and
\* Nodes.erase(Nodes.begin() + id) with the end iterator, which is undefined.
\* The run aborts, which leaves no state, or erase moves nothing and takes
\* the end of the vector back by one: the last node is gone, true is
\* returned, and UpdateRange is not called, id being neither 0 nor the new
\* size.  On an empty vector nothing is left to go on with.
RemovePointByIndexCall(f, id) ==
  IF id > Len(f.Nodes) THEN {[f |-> f, ret |-> 0]}
  ELSE IF id < Len(f.Nodes) THEN {[f |-> RemovePointByIndex(f, id), ret |-> 1]}
  ELSE IF Len(f.Nodes) > 0
       THEN {[f |-> [Nodes |-> DropLast(f.Nodes), Range |-> f.Range], ret |-> 1]}
       ELSE {}

\* vtkPiecewiseFunctionFindNodeInRange
FindNodeInRange(node, x1, x2) == node.X >= x1 /\ node.X <= x2

\* vtkPiecewiseFunctionFindNodeOutOfRange
FindNodeOutOfRange(node, x1, x2) == node.X < x1 \/ node.X > x2

\* a variant: one find_if and one erase, without the loop
EraseOneInRange(nodes, x1, x2) ==
  LET hits == {i \in DOMAIN nodes : FindNodeInRange(nodes[i], x1, x2)}
  IN  IF hits = {} THEN nodes
      ELSE EraseAt(nodes, (CHOOSE i \in hits : \A j \in hits : i <= j) - 1)

\* while (!done): find_if with FindNodeInRange, erase the node found
RECURSIVE EraseInRange(_, _, _)
EraseInRange(nodes, x1, x2) ==
  LET hits == {i \in DOMAIN nodes : FindNodeInRange(nodes[i], x1, x2)}
  IN  IF hits = {} THEN nodes
      ELSE EraseInRange(EraseAt(nodes, (CHOOSE i \in hits : \A j \in hits : i <= j) - 1),
                        x1, x2)

\* a variant: only the nodes above the range are erased
RECURSIVE EraseAboveRange(_, _, _)
EraseAboveRange(nodes, x1, x2) ==
  LET hits == {i \in DOMAIN nodes : nodes[i].X > x2}
  IN  IF hits = {} THEN nodes
      ELSE EraseAboveRange(EraseAt(nodes, (CHOOSE i \in hits : \A j \in hits : i <= j) - 1),
                           x1, x2)

\* while (!done): find_if with FindNodeOutOfRange, erase the node found
RECURSIVE EraseOutOfRange(_, _, _)
EraseOutOfRange(nodes, x1, x2) ==
  LET hits == {i \in DOMAIN nodes : FindNodeOutOfRange(nodes[i], x1, x2)}
  IN  IF hits = {} THEN nodes
      ELSE EraseOutOfRange(EraseAt(nodes, (CHOOSE i \in hits : \A j \in hits : i <= j) - 1),
                           x1, x2)

\* AddSegment(x1, y1, x2, y2)
AddSegment(f, allowDuplicateScalars, x1, y1, x2, y2) ==
  LET erased == [Nodes |-> EraseInRange(f.Nodes, x1, x2), Range |-> f.Range]
      first == AddPoint(erased, allowDuplicateScalars, x1, y1, 5, 0).f
  IN  AddPoint(first, allowDuplicateScalars, x2, y2, 5, 0).f

\* AdjustRange(range) for a range that is not null: returns 1.  y0 and y1
\* stand for the values GetValue gives for the two points added at the ends
\* of the range; which argument GetValue gets depends on Range, its result
\* on the interpolation, so the two are taken as given.
AdjustRange(f, allowDuplicateScalars, range, y0, y1) ==
  LET first == AddPoint(f, allowDuplicateScalars, range[1], y0, 5, 0).f
      second == AddPoint(first, allowDuplicateScalars, range[2], y1, 5, 0).f
  IN  SortAndUpdateRange(
        [Nodes |-> EraseOutOfRange(second.Nodes, range[1], range[2]),
         Range |-> second.Range])

\* BuildFunctionFromTable(xStart, xEnd, size, table, 1) for size <= 2, where
\* inc is 0 or xEnd - xStart
BuildFunctionFromTable(f, xStart, xEnd, size, table) ==
  LET inc == IF size > 1 THEN xEnd - xStart ELSE 0
      cleared == RemoveAllPoints(f)
  IN  SortAndUpdateRange(
        [Nodes |-> [i \in 1 .. size |-> NewNode(xStart + inc * (i - 1), table[i], 5, 0)],
         Range |-> cleared.Range])

\* the loop of DeepCopy and ShallowCopy from node i of the source on:
\* GetNodeValue(i, val), AddPoint(val[0], val[1], val[2], val[3])
RECURSIVE CopyNodesFrom(_, _, _, _)
CopyNodesFrom(f, allowDuplicateScalars, source, i) ==
  IF i >= Len(source) THEN f
  ELSE CopyNodesFrom(AddPoint(f, allowDuplicateScalars, source[i + 1].X,
                              source[i + 1].Y, source[i + 1].Midpoint,
                              source[i + 1].Sharpness).f,
                     allowDuplicateScalars, source, i + 1)

\* a variant: the nodes of the source are added as if duplicates were allowed
DeepCopyAllowingDuplicates(f, allowDuplicateScalars, source) ==
  CopyNodesFrom(RemoveAllPoints(f), TRUE, source, 0)

\* DeepCopy(o) and ShallowCopy(o), o being a piecewise function with the
\* nodes source
DeepCopy(f, allowDuplicateScalars, source) ==
  CopyNodesFrom(RemoveAllPoints(f), allowDuplicateScalars, source, 0)

\* the piecewise function as its constructor leaves it
PiecewiseFunctionConstructed ==
  /\ Nodes = << >>
  /\ Range = << 0, 0 >>
  /\ AllowDuplicateScalars = FALSE
  /\ pwfCall = [op |-> "none", x |-> NULL, ret |-> 0]

(***************************************************************************)
(* vtkButtonRepresentation                                                 *)
(***************************************************************************)
\* largest number of states given to SetNumberOfStates
MaxStates == 7

\* vtkSetClampMacro(NumberOfStates, int, 1, VTK_INT_MAX): the value stored
ClampNumberOfStates(n) == IF n < 1 THEN 1 ELSE n

\* the state clamped within the possible state values
ClampState(state, numStates) ==
  IF state < 0 THEN 0 ELSE IF state >= numStates THEN numStates - 1 ELSE state

\* modulo traversal of the state values
WrapState(state, numStates) == state % numStates

\* the button representation in use: the class comment has every use begin
\* with the number of states, here the least one the clamp admits; the state
\* is the first one
ButtonConstructed ==
  /\ NumberOfStates = ClampNumberOfStates(0)
  /\ State = 0
  /\ buttonCall = "SetNumberOfStates"

(***************************************************************************)
(* Init: the filter constructed, RequestData entered                       *)
(***************************************************************************)
\* the locals and outputs of RequestData at its entry
FilterConstructed ==
  /\ pc = "start"
  /\ cellIdx = 0
  /\ firstVertexIndex = 0
  /\ polylineSize = 0
  /\ polyline = NoPolyline
  /\ PriorityQueue = {}
  /\ currentNumPts = 0
  /\ vertex = NULL
  /\ newPts = << >>
  /\ newLines = << >>
  /\ outPD = << >>
  /\ outCD = << >>
  /\ pointIdMap = << >>
  /\ output = [PointsSet |-> FALSE, Points |-> << >>, LinesSet |-> FALSE, Lines |-> << >>]
  /\ result = NULL
  /\ aborted = NULL
  /\ removed = [idx |-> NULL, error |-> << 0, 1 >>, cur |-> 0, size |-> 0,
                isLoop |-> FALSE, rivals |-> {}, linked |-> FALSE,
                prev |-> NULL, next |-> NULL, slots |-> {}]
  /\ excluded = {}
  /\ walked = << >>

Init ==
  /\ \E cells \in CellLists, null \in BOOLEAN :
       /\ null => cells = << >>
       /\ inputLines = [null |-> null, cells |-> cells]
  /\ \E pts \in PointSets \cup {<< >>}, null \in BOOLEAN :
       /\ null => pts = << >>
       /\ pts = << >> => Len(inputLines.cells) <= 1
       /\ inputPoints = [null |-> null, pts |-> pts]
  /\ TargetReduction \in TargetReductions
  /\ MaximumError \in MaximumErrors
  /\ FilterConstructed
  /\ PiecewiseFunctionConstructed
  /\ ButtonConstructed

(***************************************************************************)
(* Actions                                                                 *)
(***************************************************************************)
\* lines 139-148: nothing to decimate, return 1
EarlyReturn ==
  /\ pc = "start"
  /\ NothingToDo
  /\ result' = 1
  /\ pc' = "done"
  /\ InputUnchanged
  /\ UNCHANGED << cellIdx, firstVertexIndex, polylineSize, polyline, PriorityQueue,
                  currentNumPts, vertex, newPts, newLines, outPD, outCD,
                  pointIdMap, output, aborted, removed, excluded, walked >>

\* lines 150-182: allocate newPts, newLines, the attribute copies, the map
Allocate ==
  /\ pc = "start"
  /\ ~ NothingToDo
  /\ newPts' = << >>
  /\ newLines' = << >>
  /\ outPD' = << >>
  /\ outCD' = << >>
  /\ pointIdMap' = << >>
  /\ cellIdx' = 0
  /\ firstVertexIndex' = 0
  /\ polylineSize' = 0
  /\ pc' = "loop"
  /\ InputUnchanged
  /\ UNCHANGED << polyline, PriorityQueue, currentNumPts, vertex, output,
                  result, aborted, removed, excluded, walked >>

\* line 184: lineIter->IsDoneWithTraversal()
LoopDone ==
  /\ pc = "loop"
  /\ cellIdx >= numLines
  /\ pc' = "finish"
  /\ InputUnchanged
  /\ UNCHANGED << cellIdx, firstVertexIndex, polylineSize, polyline, PriorityQueue,
                  currentNumPts, vertex, newPts, newLines, outPD, outCD,
                  pointIdMap, output, result, aborted, removed, excluded, walked >>

\* a variant: the abort check sits after InsertNextCell, before the walk
AbortAfterInsertNextCell ==
  /\ pc = "walk"
  /\ vertex = 0
  /\ aborted' = cellIdx
  /\ pc' = "finish"
  /\ InputUnchanged
  /\ UNCHANGED << cellIdx, firstVertexIndex, polylineSize, polyline, PriorityQueue,
                  currentNumPts, vertex, newPts, newLines, outPD, outCD,
                  pointIdMap, output, result, removed, excluded, walked >>

\* lines 187-190: CheckAbort() returns true, break
Abort ==
  /\ pc = "loop"
  /\ cellIdx < numLines
  /\ aborted' = cellIdx
  /\ pc' = "finish"
  /\ InputUnchanged
  /\ UNCHANGED << cellIdx, firstVertexIndex, polylineSize, polyline, PriorityQueue,
                  currentNumPts, vertex, newPts, newLines, outPD, outCD,
                  pointIdMap, output, result, removed, excluded, walked >>

\* lines 187-195: CheckAbort() returns false; GetCurrentCell, new Polyline
BeginPolyline ==
  /\ pc = "loop"
  /\ cellIdx < numLines
  /\ polylineSize' = Len(CurrentCell)
  /\ polyline' = PolylineNew(CurrentCell, Len(CurrentCell))
  /\ pc' = "seed"
  /\ InputUnchanged
  /\ UNCHANGED << cellIdx, firstVertexIndex, PriorityQueue, currentNumPts, vertex,
                  newPts, newLines, outPD, outCD, pointIdMap, output, result,
                  aborted, removed, excluded, walked >>

\* lines 197-213: seed the queue, currentNumPts = polylineSize
Seed ==
  /\ pc = "seed"
  /\ PriorityQueue' = SeedQueue(PriorityQueue, inputPoints.pts, polyline, MaximumError, 0)
  /\ currentNumPts' = polylineSize
  /\ excluded' = ExceedingSlots(inputPoints.pts, polyline, MaximumError,
                                LinkedSlots(polyline))
  /\ pc' = "reduce"
  /\ InputUnchanged
  /\ UNCHANGED << cellIdx, firstVertexIndex, polylineSize, polyline, vertex,
                  newPts, newLines, outPD, outCD, pointIdMap, output, result,
                  aborted, removed, walked >>

\* lines 214-216: the while condition is false
ReduceDone ==
  /\ pc = "reduce"
  /\ ~ WhileCondition(currentNumPts, polylineSize, polyline.IsLoop, TargetReduction)
  /\ pc' = "emit"
  /\ InputUnchanged
  /\ UNCHANGED << cellIdx, firstVertexIndex, polylineSize, polyline, PriorityQueue,
                  currentNumPts, vertex, newPts, newLines, outPD, outCD,
                  pointIdMap, output, result, aborted, removed, excluded, walked >>

\* a variant: the empty queue ends the loop over the polylines as well
ReduceExhaustedLeavesRun ==
  /\ pc = "reduce"
  /\ WhileCondition(currentNumPts, polylineSize, polyline.IsLoop, TargetReduction)
  /\ PriorityQueue = {}
  /\ pc' = "finish"
  /\ InputUnchanged
  /\ UNCHANGED << cellIdx, firstVertexIndex, polylineSize, polyline, PriorityQueue,
                  currentNumPts, vertex, newPts, newLines, outPD, outCD,
                  pointIdMap, output, result, aborted, removed, excluded, walked >>

\* lines 218-222: Pop() returns no id, break
ReduceExhausted ==
  /\ pc = "reduce"
  /\ WhileCondition(currentNumPts, polylineSize, polyline.IsLoop, TargetReduction)
  /\ PriorityQueue = {}
  /\ pc' = "emit"
  /\ InputUnchanged
  /\ UNCHANGED << cellIdx, firstVertexIndex, polylineSize, polyline, PriorityQueue,
                  currentNumPts, vertex, newPts, newLines, outPD, outCD,
                  pointIdMap, output, result, aborted, removed, excluded, walked >>

\* a variant: Pop returns the lowest entry and leaves it in the queue
ReduceStepKeepsEntry ==
  /\ pc = "reduce"
  /\ WhileCondition(currentNumPts, polylineSize, polyline.IsLoop, TargetReduction)
  /\ \E popped \in PopCandidates(PriorityQueue) :
       LET poppedIdx == popped.id
           pl == Remove(polyline, poppedIdx)
           prevIdx == pl.Vertices[pl.Vertices[poppedIdx].prev].index
           nextIdx == pl.Vertices[pl.Vertices[poppedIdx].next].index
           q0 == PriorityQueue
           q1 == UpdateNeighbour(q0, inputPoints.pts, pl, MaximumError, prevIdx)
           q2 == UpdateNeighbour(q1, inputPoints.pts, pl, MaximumError, nextIdx)
       IN  /\ currentNumPts' = currentNumPts - 1
           /\ polyline' = pl
           /\ PriorityQueue' = q2
           /\ removed' = [idx |-> poppedIdx,
                          error |-> ComputeError(inputPoints.pts, polyline, poppedIdx),
                          cur |-> currentNumPts,
                          size |-> polylineSize,
                          isLoop |-> polyline.IsLoop,
                          linked |-> poppedIdx \in LinkedSlots(polyline),
                          slots |-> IF currentNumPts = polylineSize
                                    THEN {poppedIdx}
                                    ELSE removed.slots \cup {poppedIdx},
                          prev |-> polyline.Vertices[poppedIdx].prev,
                          next |-> polyline.Vertices[poppedIdx].next,
                          rivals |-> {[idx |-> v,
                                       error |-> ComputeError(inputPoints.pts, polyline, v)] :
                                      v \in {w \in LinkedSlots(polyline) \ {poppedIdx} :
                                               polyline.Vertices[w].removable}}]
           /\ excluded' = excluded \cup ExceedingSlots(inputPoints.pts, pl, MaximumError,
                                                       {prevIdx, nextIdx})
  /\ pc' = "reduce"
  /\ InputUnchanged
  /\ UNCHANGED << cellIdx, firstVertexIndex, polylineSize, vertex, newPts,
                  newLines, outPD, outCD, pointIdMap, output, result, aborted,
                  walked >>

\* a variant: an iteration that pops nothing, removes nothing and does not break
ReduceStepNoRemoval ==
  /\ pc = "reduce"
  /\ WhileCondition(currentNumPts, polylineSize, polyline.IsLoop, TargetReduction)
  /\ PriorityQueue # {}
  /\ pc' = "reduce"
  /\ InputUnchanged
  /\ UNCHANGED << cellIdx, firstVertexIndex, polylineSize, polyline, PriorityQueue,
                  currentNumPts, vertex, newPts, newLines, outPD, outCD,
                  pointIdMap, output, result, aborted, removed, excluded, walked >>

\* lines 218-248: one iteration of the while loop that removes a vertex
ReduceStep ==
  /\ pc = "reduce"
  /\ WhileCondition(currentNumPts, polylineSize, polyline.IsLoop, TargetReduction)
  /\ \E popped \in PopCandidates(PriorityQueue) :
       LET poppedIdx == popped.id
           pl == Remove(polyline, poppedIdx)
           prevIdx == pl.Vertices[pl.Vertices[poppedIdx].prev].index
           nextIdx == pl.Vertices[pl.Vertices[poppedIdx].next].index
           q0 == PriorityQueue \ {popped}
           q1 == UpdateNeighbour(q0, inputPoints.pts, pl, MaximumError, prevIdx)
           q2 == UpdateNeighbour(q1, inputPoints.pts, pl, MaximumError, nextIdx)
       IN  /\ currentNumPts' = currentNumPts - 1
           /\ polyline' = pl
           /\ PriorityQueue' = q2
           /\ removed' = [idx |-> poppedIdx,
                          error |-> ComputeError(inputPoints.pts, polyline, poppedIdx),
                          cur |-> currentNumPts,
                          size |-> polylineSize,
                          isLoop |-> polyline.IsLoop,
                          linked |-> poppedIdx \in LinkedSlots(polyline),
                          slots |-> IF currentNumPts = polylineSize
                                    THEN {poppedIdx}
                                    ELSE removed.slots \cup {poppedIdx},
                          prev |-> polyline.Vertices[poppedIdx].prev,
                          next |-> polyline.Vertices[poppedIdx].next,
                          rivals |-> {[idx |-> v,
                                       error |-> ComputeError(inputPoints.pts, polyline, v)] :
                                      v \in {w \in LinkedSlots(polyline) \ {poppedIdx} :
                                               polyline.Vertices[w].removable}}]
           /\ excluded' = excluded \cup ExceedingSlots(inputPoints.pts, pl, MaximumError,
                                                       {prevIdx, nextIdx})
  /\ pc' = "reduce"
  /\ InputUnchanged
  /\ UNCHANGED << cellIdx, firstVertexIndex, polylineSize, vertex, newPts,
                  newLines, outPD, outCD, pointIdMap, output, result, aborted,
                  walked >>

\* a variant: the cell is declared with the input size, InsertNextCell(polylineSize)
EmitCellWithInputSize ==
  /\ pc = "emit"
  /\ LET newId == Len(newLines)
     IN  /\ newLines' = Append(newLines, [npts |-> polylineSize, pts |-> << >>])
         /\ outCD' = CopyData(outCD, firstVertexIndex, newId)
  /\ walked' = Append(walked, << >>)
  /\ vertex' = 0
  /\ pc' = "walk"
  /\ InputUnchanged
  /\ UNCHANGED << cellIdx, firstVertexIndex, polylineSize, polyline, PriorityQueue,
                  currentNumPts, newPts, outPD, pointIdMap, output, result,
                  aborted, removed, excluded >>

\* lines 252-257: InsertNextCell(currentNumPts), CopyData of the cell record,
\* vertex = &Vertices[0]
EmitCell ==
  /\ pc = "emit"
  /\ LET newId == Len(newLines)
     IN  /\ newLines' = Append(newLines, [npts |-> currentNumPts, pts |-> << >>])
         /\ outCD' = CopyData(outCD, firstVertexIndex, newId)
  /\ walked' = Append(walked, << >>)
  /\ vertex' = 0
  /\ pc' = "walk"
  /\ InputUnchanged
  /\ UNCHANGED << cellIdx, firstVertexIndex, polylineSize, polyline, PriorityQueue,
                  currentNumPts, newPts, outPD, pointIdMap, output, result,
                  aborted, removed, excluded >>

\* a variant: every vertex met gets a new output point, the map is not asked
InsertCellPointAlwaysNew(id) ==
  LET newId == Len(newPts)
  IN  /\ newPts' = Append(newPts, inputPoints.pts[id])
      /\ newLines' = [newLines EXCEPT ![Len(newLines)].pts = Append(@, newId)]
      /\ outPD' = Append(outPD, id)
      /\ pointIdMap' = MapInsert(pointIdMap, id, newId)

\* a variant: an identifier the map holds goes into the cell as it is
InsertCellPointFoundAsKey(id) ==
  IF id \notin DOMAIN pointIdMap
  THEN LET newId == Len(newPts)
       IN  /\ newPts' = Append(newPts, inputPoints.pts[id])
           /\ newLines' = [newLines EXCEPT ![Len(newLines)].pts = Append(@, newId)]
           /\ outPD' = Append(outPD, id)
           /\ pointIdMap' = MapInsert(pointIdMap, id, newId)
  ELSE /\ newLines' = [newLines EXCEPT ![Len(newLines)].pts = Append(@, id)]
       /\ UNCHANGED << newPts, outPD, pointIdMap >>

\* lines 262-273: the point of original identifier id goes into the current
\* output cell, and into the output point set when the map does not hold it
InsertCellPointFor(id) ==
  IF id \notin DOMAIN pointIdMap
  THEN LET newId == Len(newPts)
       IN  /\ newPts' = Append(newPts, inputPoints.pts[id])
           /\ newLines' = [newLines EXCEPT ![Len(newLines)].pts = Append(@, newId)]
           /\ outPD' = Append(outPD, id)
           /\ pointIdMap' = MapInsert(pointIdMap, id, newId)
  ELSE /\ newLines' = [newLines EXCEPT ![Len(newLines)].pts = Append(@, pointIdMap[id])]
       /\ UNCHANGED << newPts, outPD, pointIdMap >>

\* a variant: the walk stops at the vertex whose next is null, without emitting it
WalkVertexStopsBeforeLast ==
  /\ pc = "walk"
  /\ vertex # NULL
  /\ IF polyline.Vertices[vertex].next # NULL
     THEN /\ InsertCellPointFor(polyline.Vertices[vertex].id)
          /\ walked' = [walked EXCEPT ![Len(walked)] = Append(@, polyline.Vertices[vertex].id)]
     ELSE UNCHANGED << newPts, newLines, outPD, pointIdMap, walked >>
  /\ vertex' = polyline.Vertices[vertex].next
  /\ pc' = "walk"
  /\ InputUnchanged
  /\ UNCHANGED << cellIdx, firstVertexIndex, polylineSize, polyline, PriorityQueue,
                  currentNumPts, outCD, output, result, aborted, removed, excluded >>

\* lines 258-276: one iteration of the emit walk
WalkVertex ==
  /\ pc = "walk"
  /\ vertex # NULL
  /\ InsertCellPointFor(polyline.Vertices[vertex].id)
  /\ walked' = [walked EXCEPT ![Len(walked)] = Append(@, polyline.Vertices[vertex].id)]
  /\ vertex' = polyline.Vertices[vertex].next
  /\ pc' = "walk"
  /\ InputUnchanged
  /\ UNCHANGED << cellIdx, firstVertexIndex, polylineSize, polyline, PriorityQueue,
                  currentNumPts, outCD, output, result, aborted, removed, excluded >>

\* a variant: the queue is handed to the next polyline as it is, without Reset()
EndPolylineKeepsQueue ==
  /\ pc = "walk"
  /\ vertex = NULL
  /\ polyline' = NoPolyline
  /\ cellIdx' = cellIdx + 1
  /\ firstVertexIndex' = firstVertexIndex + polylineSize
  /\ pc' = "loop"
  /\ InputUnchanged
  /\ excluded' = {}
  /\ UNCHANGED << polylineSize, PriorityQueue, currentNumPts, vertex, newPts,
                  newLines, outPD, outCD, pointIdMap, output, result, aborted,
                  removed, walked >>

\* lines 278-280 and 185: delete polyline, Reset, GoToNextCell,
\* firstVertexIndex += polylineSize
EndPolyline ==
  /\ pc = "walk"
  /\ vertex = NULL
  /\ polyline' = NoPolyline
  /\ PriorityQueue' = Reset(PriorityQueue)
  /\ cellIdx' = cellIdx + 1
  /\ firstVertexIndex' = firstVertexIndex + polylineSize
  /\ pc' = "loop"
  /\ InputUnchanged
  /\ excluded' = {}
  /\ UNCHANGED << polylineSize, currentNumPts, vertex, newPts, newLines, outPD,
                  outCD, pointIdMap, output, result, aborted, removed, walked >>

\* lines 283-289: SetPoints, SetLines, return 1
Finish ==
  /\ pc = "finish"
  /\ output' = [PointsSet |-> TRUE, Points |-> newPts, LinesSet |-> TRUE, Lines |-> newLines]
  /\ result' = 1
  /\ pc' = "done"
  /\ InputUnchanged
  /\ UNCHANGED << cellIdx, firstVertexIndex, polylineSize, polyline, PriorityQueue,
                  currentNumPts, vertex, newPts, newLines, outPD, outCD,
                  pointIdMap, aborted, removed, excluded, walked >>

Next ==
  \/ EarlyReturn
  \/ Allocate
  \/ LoopDone
  \/ Abort
  \/ BeginPolyline
  \/ Seed
  \/ ReduceDone
  \/ ReduceExhausted
  \/ ReduceStep
  \/ EmitCell
  \/ WalkVertex
  \/ EndPolyline
  \/ Finish

Spec == Init /\ [][Next]_vars

TypeOK ==
  /\ pc \in {"start", "loop", "seed", "reduce", "emit", "walk", "finish", "done"}
  /\ currentNumPts \in 0 .. MaxLen
  /\ cellIdx \in 0 .. MaxCells

(***************************************************************************)
(* vtkPiecewiseFunction: the calls                                         *)
(***************************************************************************)
\* the function the variables hold
ThisFunction == [Nodes |-> Nodes, Range |-> Range]

\* the filter constructed and idle: no input, RequestData not running
FilterIdle ==
  /\ inputLines = [null |-> TRUE, cells |-> << >>]
  /\ inputPoints = [null |-> TRUE, pts |-> << >>]
  /\ TargetReduction = DefaultTargetReduction
  /\ MaximumError = VTK_DOUBLE_MAX
  /\ FilterConstructed

\* the tables given to FillFromDataPointer: none, and the tables of two
\* pairs << x1, 0 >>, << x2, 1 >>
FillTables == {<< >>} \cup {<< << x1, 0 >>, << x2, 1 >> >> : x1 \in PwfXs, x2 \in PwfXs}

\* AllowDuplicateScalarsOn() / AllowDuplicateScalarsOff()
CallSetAllowDuplicateScalars(b) ==
  /\ AllowDuplicateScalars' = b
  /\ pwfCall' = [op |-> "SetAllowDuplicateScalars", x |-> NULL, ret |-> 0]
  /\ UNCHANGED << Nodes, Range >>
  /\ UNCHANGED << filterVars, buttonVars >>

\* AddPoint(x, y, midpoint, sharpness)
CallAddPoint(x, y, midpoint, sharpness) ==
  LET r == AddPoint(ThisFunction, AllowDuplicateScalars, x, y, midpoint, sharpness)
  IN  /\ Len(r.f.Nodes) <= MaxNodes
      /\ Nodes' = r.f.Nodes
      /\ Range' = r.f.Range
      /\ pwfCall' = [op |-> "AddPoint", x |-> x, ret |-> r.ret]
      /\ UNCHANGED AllowDuplicateScalars
      /\ UNCHANGED << filterVars, buttonVars >>

\* RemovePoint(x)
CallRemovePoint(x) ==
  LET r == RemovePoint(ThisFunction, x)
  IN  /\ Nodes' = r.f.Nodes
      /\ Range' = r.f.Range
      /\ pwfCall' = [op |-> "RemovePoint", x |-> x, ret |-> r.ret]
      /\ UNCHANGED AllowDuplicateScalars
      /\ UNCHANGED << filterVars, buttonVars >>

\* SetNodeValue(index, val)
CallSetNodeValue(index, val) ==
  LET r == SetNodeValue(ThisFunction, index, val)
  IN  /\ Nodes' = r.f.Nodes
      /\ Range' = r.f.Range
      /\ pwfCall' = [op |-> "SetNodeValue", x |-> val.X, ret |-> r.ret]
      /\ UNCHANGED AllowDuplicateScalars
      /\ UNCHANGED << filterVars, buttonVars >>

\* FillFromDataPointer(nb, ptr)
CallFillFromDataPointer(ptr) ==
  LET f == FillFromDataPointer(ThisFunction, Len(ptr), ptr)
  IN  /\ Nodes' = f.Nodes
      /\ Range' = f.Range
      /\ pwfCall' = [op |-> "FillFromDataPointer", x |-> NULL, ret |-> 0]
      /\ UNCHANGED AllowDuplicateScalars
      /\ UNCHANGED << filterVars, buttonVars >>

\* the table given to BuildFunctionFromTable
BuildTable == << 0, 1 >>

\* the node sequences of the functions given to DeepCopy and ShallowCopy:
\* up to two nodes in non-decreasing order of X, as a function holds them
SourceNodes ==
  {<< >>}
  \cup {<< NewNode(x, 0, 5, 0) >> : x \in PwfXs}
  \cup {<< NewNode(p[1], 0, 5, 0), NewNode(p[2], 1, 5, 0) >> :
          p \in {q \in PwfXs \X PwfXs : q[1] <= q[2]}}

\* RemovePointByIndex(id)
CallRemovePointByIndex(id) ==
  \E r \in RemovePointByIndexCall(ThisFunction, id) :
    /\ Nodes' = r.f.Nodes
    /\ Range' = r.f.Range
    /\ pwfCall' = [op |-> "RemovePointByIndex", x |-> id, ret |-> r.ret]
    /\ UNCHANGED AllowDuplicateScalars
    /\ UNCHANGED << filterVars, buttonVars >>

\* RemoveAllPoints()
CallRemoveAllPoints ==
  LET f == RemoveAllPoints(ThisFunction)
  IN  /\ Nodes' = f.Nodes
      /\ Range' = f.Range
      /\ pwfCall' = [op |-> "RemoveAllPoints", x |-> NULL, ret |-> 0]
      /\ UNCHANGED AllowDuplicateScalars
      /\ UNCHANGED << filterVars, buttonVars >>

\* AddSegment(x1, y1, x2, y2)
CallAddSegment(x1, y1, x2, y2) ==
  LET f == AddSegment(ThisFunction, AllowDuplicateScalars, x1, y1, x2, y2)
  IN  /\ Len(f.Nodes) <= MaxNodes
      /\ Nodes' = f.Nodes
      /\ Range' = f.Range
      /\ pwfCall' = [op |-> "AddSegment", x |-> << x1, y1, x2, y2 >>, ret |-> 0]
      /\ UNCHANGED AllowDuplicateScalars
      /\ UNCHANGED << filterVars, buttonVars >>

\* AdjustRange(range), range not null
CallAdjustRange(range, y0, y1) ==
  LET f == AdjustRange(ThisFunction, AllowDuplicateScalars, range, y0, y1)
  IN  /\ Len(f.Nodes) <= MaxNodes
      /\ Nodes' = f.Nodes
      /\ Range' = f.Range
      /\ pwfCall' = [op |-> "AdjustRange", x |-> range, ret |-> 1]
      /\ UNCHANGED AllowDuplicateScalars
      /\ UNCHANGED << filterVars, buttonVars >>

\* AdjustRange(nullptr): returns 0
CallAdjustRangeNull ==
  /\ pwfCall' = [op |-> "AdjustRange", x |-> NULL, ret |-> 0]
  /\ UNCHANGED << Nodes, Range, AllowDuplicateScalars >>
  /\ UNCHANGED << filterVars, buttonVars >>

\* BuildFunctionFromTable(xStart, xEnd, size, table)
CallBuildFunctionFromTable(xStart, xEnd, size) ==
  LET f == BuildFunctionFromTable(ThisFunction, xStart, xEnd, size, BuildTable)
  IN  /\ Nodes' = f.Nodes
      /\ Range' = f.Range
      /\ pwfCall' = [op |-> "BuildFunctionFromTable", x |-> NULL, ret |-> 0]
      /\ UNCHANGED AllowDuplicateScalars
      /\ UNCHANGED << filterVars, buttonVars >>

\* DeepCopy(o), o a piecewise function with the nodes source
CallDeepCopy(source) ==
  LET f == DeepCopy(ThisFunction, AllowDuplicateScalars, source)
  IN  /\ Nodes' = f.Nodes
      /\ Range' = f.Range
      /\ pwfCall' = [op |-> "DeepCopy", x |-> source, ret |-> 0]
      /\ UNCHANGED AllowDuplicateScalars
      /\ UNCHANGED << filterVars, buttonVars >>

\* ShallowCopy(o), o a piecewise function with the nodes source: the same
\* statements as DeepCopy
CallShallowCopy(source) ==
  LET f == DeepCopy(ThisFunction, AllowDuplicateScalars, source)
  IN  /\ Nodes' = f.Nodes
      /\ Range' = f.Range
      /\ pwfCall' = [op |-> "ShallowCopy", x |-> source, ret |-> 0]
      /\ UNCHANGED AllowDuplicateScalars
      /\ UNCHANGED << filterVars, buttonVars >>

InitPWF ==
  /\ FilterIdle
  /\ PiecewiseFunctionConstructed
  /\ ButtonConstructed

NextPWF ==
  \/ \E b \in BOOLEAN : CallSetAllowDuplicateScalars(b)
  \/ \E x \in PwfXs, y \in PwfYs, midpoint \in Midpoints, sharpness \in Sharpnesses :
       CallAddPoint(x, y, midpoint, sharpness)
  \/ \E x \in PwfXs : CallRemovePoint(x)
  \/ \E index \in -1 .. MaxNodes, x \in PwfXs, y \in PwfYs :
       CallSetNodeValue(index, NewNode(x, y, 5, 0))
  \/ \E ptr \in FillTables : CallFillFromDataPointer(ptr)

SpecPWF == InitPWF /\ [][NextPWF]_vars

(***************************************************************************)
(* vtkPiecewiseFunction, every public mutating operation, on nodes of      *)
(* midpoint 0.5 and sharpness 0                                            *)
(***************************************************************************)
NextPWFAll ==
  \/ \E b \in BOOLEAN : CallSetAllowDuplicateScalars(b)
  \/ \E x \in PwfXs, y \in PwfYs, midpoint \in {5, 11} : CallAddPoint(x, y, midpoint, 0)
  \/ \E x \in PwfXs : CallRemovePoint(x)
  \/ \E index \in -1 .. MaxNodes, x \in PwfXs : CallSetNodeValue(index, NewNode(x, 0, 5, 0))
  \/ \E ptr \in FillTables : CallFillFromDataPointer(ptr)
  \/ \E id \in 0 .. MaxNodes + 1 : CallRemovePointByIndex(id)
  \/ CallRemoveAllPoints
  \/ \E x1 \in PwfXs, x2 \in PwfXs : CallAddSegment(x1, 0, x2, 1)
  \/ \E range \in PwfXs \X PwfXs, y0 \in PwfYs, y1 \in PwfYs :
       CallAdjustRange(range, y0, y1)
  \/ CallAdjustRangeNull
  \/ \E xStart \in PwfXs, xEnd \in PwfXs, size \in 0 .. 2 :
       CallBuildFunctionFromTable(xStart, xEnd, size)
  \/ \E source \in SourceNodes : CallDeepCopy(source)
  \/ \E source \in SourceNodes : CallShallowCopy(source)

SpecPWFAll == InitPWF /\ [][NextPWFAll]_vars

(***************************************************************************)
(* vtkButtonRepresentation: the calls                                      *)
(***************************************************************************)
\* SetNumberOfStates(n)
CallSetNumberOfStates(n) ==
  /\ NumberOfStates' = ClampNumberOfStates(n)
  /\ buttonCall' = "SetNumberOfStates"
  /\ UNCHANGED State
  /\ UNCHANGED << filterVars, pwfVars >>

\* SetState(state)
CallSetState(state) ==
  /\ State' = ClampState(state, NumberOfStates)
  /\ buttonCall' = "SetState"
  /\ UNCHANGED NumberOfStates
  /\ UNCHANGED << filterVars, pwfVars >>

\* NextState()
CallNextState ==
  /\ State' = WrapState(State + 1, NumberOfStates)
  /\ buttonCall' = "NextState"
  /\ UNCHANGED NumberOfStates
  /\ UNCHANGED << filterVars, pwfVars >>

\* PreviousState()
CallPreviousState ==
  /\ State' = WrapState(State - 1, NumberOfStates)
  /\ buttonCall' = "PreviousState"
  /\ UNCHANGED NumberOfStates
  /\ UNCHANGED << filterVars, pwfVars >>

InitButton ==
  /\ FilterIdle
  /\ PiecewiseFunctionConstructed
  /\ ButtonConstructed

NextButton ==
  \/ \E n \in 0 .. MaxStates : CallSetNumberOfStates(n)
  \/ \E state \in -1 .. MaxStates : CallSetState(state)
  \/ CallNextState
  \/ CallPreviousState

SpecButton == InitButton /\ [][NextButton]_vars

(***************************************************************************)
(* Vocabulary of the properties                                            *)
(***************************************************************************)
\* the output cells whose polyline has been processed to the end
DoneCells == 1 .. cellIdx

\* the input cell behind output cell k
InputCell(k) == inputLines.cells[k]

\* the original point identifiers behind the entries of output cell k,
\* read off the per-point attribute records
Origins(k) ==
  [i \in 1 .. Len(newLines[k].pts) |-> outPD[newLines[k].pts[i] + 1]]

\* first identifier equals last identifier
IsLoopCell(cell) == cell[1] = cell[Len(cell)]

\* the least vertex count the reduction may leave
MinimumCount(cell) == IF IsLoopCell(cell) THEN 3 ELSE 2

\* a is a subsequence of b
RECURSIVE IsSubseq(_, _)
IsSubseq(a, b) ==
  IF a = << >> THEN TRUE
  ELSE IF b = << >> THEN FALSE
  ELSE IF Head(a) = Head(b) THEN IsSubseq(Tail(a), Tail(b))
  ELSE IsSubseq(a, Tail(b))

\* the points of the cell lie on one line
Collinear(cell) ==
  \A i, j, k \in 1 .. Len(cell) :
    Cross(Sub(inputPoints.pts[cell[j]], inputPoints.pts[cell[i]]),
          Sub(inputPoints.pts[cell[k]], inputPoints.pts[cell[i]])) = << 0, 0, 0 >>

\* the point set and the line cell of the scenario: (0,0,0), (1,0.01,0),
\* (2,0,0), (3,0,0), in hundredths, one open polyline 0, 1, 2, 3
ScenarioInput ==
  /\ ~ inputPoints.null
  /\ DOMAIN inputPoints.pts = 0 .. 3
  /\ inputPoints.pts[0] = << 0, 0, 0 >>
  /\ inputPoints.pts[1] = << 100, 1, 0 >>
  /\ inputPoints.pts[2] = << 200, 0, 0 >>
  /\ inputPoints.pts[3] = << 300, 0, 0 >>
  /\ ~ inputLines.null
  /\ inputLines.cells = << ScenarioCell >>
  /\ TargetReduction = DefaultTargetReduction
  /\ MaximumError = VTK_DOUBLE_MAX

(***************************************************************************)
(* C1: the first and the last point identifier of every processed input    *)
(* cell are the first and the last entry of its output cell, mapped        *)
(* through pointIdMap, whatever TargetReduction and MaximumError are.      *)
(***************************************************************************)
C1_EndpointsKept ==
  \A k \in DoneCells :
    LET in == InputCell(k)
        out == newLines[k].pts
    IN  /\ Len(out) >= 1
        /\ in[1] \in DOMAIN pointIdMap
        /\ in[Len(in)] \in DOMAIN pointIdMap
        /\ out[1] = pointIdMap[in[1]]
        /\ out[Len(out)] = pointIdMap[in[Len(in)]]
        /\ walked[k][1] = in[1]
        /\ walked[k][Len(walked[k])] = in[Len(in)]

\* a processed open polyline that lost a vertex next to each endpoint
C1_Witness ==
  /\ pc = "done"
  /\ \E k \in DoneCells :
       /\ Len(InputCell(k)) = 4
       /\ ~ IsLoopCell(InputCell(k))
       /\ Len(newLines[k].pts) = 2

(***************************************************************************)
(* C2 as stated: the vertex count of every output cell is at least 2 for   *)
(* an open polyline, at least 3 for a loop, and at most N.                 *)
(***************************************************************************)
C2_CountAtLeastMinimum ==
  \A k \in DoneCells :
    LET in == InputCell(k)
    IN  /\ newLines[k].npts >= MinimumCount(in)
        /\ newLines[k].npts <= Len(in)

(***************************************************************************)
(* C2 amended: the vertex count of every output cell is at most N and at   *)
(* least the smaller of N and the minimum (2 open, 3 loop): a polyline     *)
(* that enters below the minimum keeps all its vertices.                   *)
(***************************************************************************)
C2_CountBounds ==
  \A k \in DoneCells :
    LET in == InputCell(k)
        least == IF Len(in) < MinimumCount(in) THEN Len(in) ELSE MinimumCount(in)
    IN  /\ newLines[k].npts >= least
        /\ newLines[k].npts <= Len(in)
        /\ Len(newLines[k].pts) = newLines[k].npts

\* an open polyline reduced to 2 and a loop reduced to 3 in one run
C2_Witness ==
  /\ pc = "done"
  /\ \E k \in DoneCells :
       /\ IsLoopCell(InputCell(k))
       /\ Len(InputCell(k)) = 4
       /\ newLines[k].npts = 3
       /\ TargetReduction = DefaultTargetReduction
  /\ \E k \in DoneCells :
       /\ ~ IsLoopCell(InputCell(k))
       /\ Len(InputCell(k)) > 2
       /\ newLines[k].npts = 2

(***************************************************************************)
(* C3 as stated: the attribute record of the k-th output cell is the       *)
(* record of the k-th input line cell, for every k.                        *)
(***************************************************************************)
C3_CellDataFromOwnCell ==
  \A k \in 1 .. Len(outCD) : outCD[k] = k - 1

(***************************************************************************)
(* C4: with TargetReduction = 0 every output cell lists the original point *)
(* identifiers of its input cell, vertex for vertex, in the same order.    *)
(***************************************************************************)
C4_ZeroTargetKeepsAll ==
  TargetReduction = 0 =>
    /\ removed.idx = NULL
    /\ \A k \in DoneCells :
         /\ Origins(k) = InputCell(k)
         /\ walked[k] = InputCell(k)
         /\ newLines[k].npts = Len(InputCell(k))

\* TargetReduction = 0 on a polyline with removable vertices of error 0
C4_Witness ==
  /\ pc = "done"
  /\ TargetReduction = 0
  /\ MaximumError = VTK_DOUBLE_MAX
  /\ cellIdx = 2
  /\ \E k \in DoneCells : Len(InputCell(k)) = 4 /\ ~ IsLoopCell(InputCell(k))

(***************************************************************************)
(* C5: with MaximumError = 0 every vertex the reduction removes has error  *)
(* 0 against the neighbours it has at the moment it is removed.            *)
(***************************************************************************)
C5_ZeroCeilingRemovesOnlyZeroError ==
  (MaximumError = 0 /\ removed.idx # NULL) => ErrIsZero(removed.error)

\* MaximumError = 0, a vertex of error 0 was removed and a vertex of nonzero
\* error stayed although the target asked for more
C5_Witness ==
  /\ pc = "done"
  /\ MaximumError = 0
  /\ TargetReduction = DefaultTargetReduction
  /\ removed.idx # NULL
  /\ \E k \in DoneCells :
       /\ ~ IsLoopCell(InputCell(k))
       /\ ~ Collinear(InputCell(k))
       /\ newLines[k].npts = 3
       /\ Len(InputCell(k)) = 4

(***************************************************************************)
(* C6: a point identifier met more than once by the emit walks (in two     *)
(* polylines, or twice in a loop) is appended to the output point set      *)
(* exactly once, and every output cell entry for it is that one new        *)
(* identifier.                                                             *)
(***************************************************************************)
C6_SharedPointEmittedOnce ==
  /\ Len(newPts) = Len(outPD)
  /\ \A n1, n2 \in 1 .. Len(outPD) : outPD[n1] = outPD[n2] => n1 = n2
  /\ \A k \in 1 .. Len(walked) :
       /\ Len(newLines[k].pts) = Len(walked[k])
       /\ \A i \in 1 .. Len(walked[k]) :
            /\ newLines[k].pts[i] + 1 \in 1 .. Len(outPD)
            /\ outPD[newLines[k].pts[i] + 1] = walked[k][i]
            /\ newPts[newLines[k].pts[i] + 1] = inputPoints.pts[walked[k][i]]
  /\ \A k1, k2 \in 1 .. Len(walked) :
       \A i1 \in 1 .. Len(walked[k1]), i2 \in 1 .. Len(walked[k2]) :
         walked[k1][i1] = walked[k2][i2] => newLines[k1].pts[i1] = newLines[k2].pts[i2]

\* an open polyline and a loop that begins and ends in a point of the first
C6_Witness ==
  /\ pc = "done"
  /\ cellIdx = 2
  /\ ~ IsLoopCell(InputCell(1))
  /\ IsLoopCell(InputCell(2))
  /\ Len(walked[2]) >= 3
  /\ \E i \in 1 .. Len(walked[1]) : walked[1][i] = walked[2][1]
  /\ walked[1][1] # walked[2][1]

(***************************************************************************)
(* C7: when CheckAbort fires before polyline k, the output holds exactly   *)
(* the complete cells of polylines 0..k-1, in input cell order, with the   *)
(* points they reference: no cell for polyline k or a later one, and no    *)
(* partially filled cell.                                                  *)
(***************************************************************************)
C7_AbortKeepsCompleteCells ==
  (pc = "done" /\ aborted # NULL) =>
    /\ output.PointsSet /\ output.LinesSet
    /\ Len(output.Lines) = aborted
    /\ \A j \in 1 .. Len(output.Lines) :
         LET cell == output.Lines[j]
         IN  /\ Len(cell.pts) = cell.npts
             /\ walked[j][1] = InputCell(j)[1]
             /\ walked[j][Len(walked[j])] = InputCell(j)[Len(InputCell(j))]
             /\ IsSubseq(walked[j], InputCell(j))
             /\ \A i \in 1 .. Len(cell.pts) :
                  /\ cell.pts[i] + 1 \in 1 .. Len(output.Points)
                  /\ output.Points[cell.pts[i] + 1] = inputPoints.pts[walked[j][i]]
    /\ \A n \in 1 .. Len(output.Points) :
         \E j \in 1 .. Len(output.Lines) :
           \E i \in 1 .. Len(output.Lines[j].pts) : output.Lines[j].pts[i] = n - 1

\* the abort fired before the second of two polylines; the first was reduced
C7_Witness ==
  /\ pc = "done"
  /\ aborted = 1
  /\ Len(inputLines.cells) = 2
  /\ Len(output.Lines) = 1
  /\ output.Lines[1].npts < Len(InputCell(1))

(***************************************************************************)
(* C8: with the default MaximumError a polyline of N vertices, N at or     *)
(* above its minimum (2 open, 3 loop), ends with the largest count c <= N  *)
(* for which 1 - c/N >= TargetReduction or c is the minimum; the scenario  *)
(* (4 points, ids 0..3, TargetReduction 0.9) ends with ids 0 and 3.        *)
(***************************************************************************)
C8_ReducesToTargetCount ==
  /\ MaximumError = VTK_DOUBLE_MAX =>
       \A k \in DoneCells :
         LET N == Len(InputCell(k))
             least == MinimumCount(InputCell(k))
             Met(c) == (N - c) * TenthsPerUnit >= TargetReduction * N \/ c = least
         IN  N >= least =>
               /\ newLines[k].npts \in least .. N
               /\ Met(newLines[k].npts)
               /\ \A c \in newLines[k].npts + 1 .. N : ~ Met(c)
  /\ (ScenarioInput /\ cellIdx = 1) => walked[1] = << 0, 3 >>

\* the scenario has run to its end
C8_Witness ==
  /\ pc = "done"
  /\ ScenarioInput
  /\ walked = << << 0, 3 >> >>
  /\ newLines[1].npts = 2

(***************************************************************************)
(* C9: an open polyline of N collinear points, reduced with a              *)
(* TargetReduction above (N-3)/N and any MaximumError >= 0, collapses to   *)
(* exactly its 2 endpoints.                                                *)
(***************************************************************************)
C9_CollinearCollapses ==
  \A k \in DoneCells :
    LET in == InputCell(k)
        N == Len(in)
    IN  ( /\ TargetReduction * N > (N - 3) * TenthsPerUnit
          /\ ~ IsLoopCell(in)
          /\ Collinear(in) )
        => /\ newLines[k].npts = 2
           /\ walked[k] = << in[1], in[N] >>

\* four collinear points under MaximumError = 0
C9_Witness ==
  /\ pc = "done"
  /\ MaximumError = 0
  /\ \E k \in DoneCells :
       /\ Len(InputCell(k)) = 4
       /\ ~ IsLoopCell(InputCell(k))
       /\ Collinear(InputCell(k))
       /\ walked[k] = << InputCell(k)[1], InputCell(k)[4] >>

(***************************************************************************)
(* C10: without line topology, without a point set, with fewer than one    *)
(* line cell or fewer than one point, RequestData returns 1 and has set    *)
(* neither output points nor output lines, copied no attribute data and    *)
(* left the priority queue as it was.                                      *)
(***************************************************************************)
C10_EmptyInputIsNoOp ==
  ( /\ pc = "done"
    /\ \/ inputLines.null
       \/ inputPoints.null
       \/ Len(inputLines.cells) < 1
       \/ DOMAIN inputPoints.pts = {} )
  => /\ result = 1
     /\ ~ output.PointsSet
     /\ ~ output.LinesSet
     /\ outPD = << >>
     /\ outCD = << >>
     /\ PriorityQueue = {}

\* a point set without line cells has been passed through RequestData
C10_Witness ==
  /\ pc = "done"
  /\ ~ inputLines.null
  /\ ~ inputPoints.null
  /\ Len(inputLines.cells) = 0
  /\ DOMAIN inputPoints.pts # {}
  /\ result = 1

(***************************************************************************)
(* C11: a polyline of two vertices and a loop of three vertices are        *)
(* emitted unchanged, whatever TargetReduction and MaximumError are: the   *)
(* output cell lists the input cell's identifiers in the input's order.    *)
(***************************************************************************)
C11_MinimalPolylinesUnchanged ==
  \A k \in DoneCells :
    ( \/ Len(InputCell(k)) = 2
      \/ (Len(InputCell(k)) = 3 /\ IsLoopCell(InputCell(k))) )
    => /\ walked[k] = InputCell(k)
       /\ newLines[k].npts = Len(InputCell(k))
       /\ Origins(k) = InputCell(k)

\* a segment and a loop of three have both been emitted under the default
\* TargetReduction and an unbounded MaximumError
C11_Witness ==
  /\ cellIdx = 2
  /\ Len(InputCell(1)) = 2
  /\ Len(InputCell(2)) = 3
  /\ IsLoopCell(InputCell(2))
  /\ TargetReduction = DefaultTargetReduction
  /\ MaximumError = VTK_DOUBLE_MAX

(***************************************************************************)
(* C12: a polyline on which no further reduction is possible, being at     *)
(* its minimum size or having no interior vertex whose error is within     *)
(* MaximumError, comes out with the point sequence it went in with.  Such  *)
(* are the cells of an output reduced as far as it goes, so that a second  *)
(* run with the same TargetReduction and MaximumError returns it as it is. *)
(***************************************************************************)
\* no interior vertex of the cell has an error within MaximumError
NoEligibleInterior(cell) ==
  \A idx \in 1 .. Len(cell) - 2 :
    ~ WithinMaximumError(ComputeError(inputPoints.pts, PolylineNew(cell, Len(cell)), idx),
                         MaximumError)

\* the cell cannot be reduced any further
FullyReduced(cell) ==
  Len(cell) <= MinimumCount(cell) \/ NoEligibleInterior(cell)

C12_FullyReducedInputUnchanged ==
  \A k \in DoneCells :
    FullyReduced(InputCell(k))
    => /\ walked[k] = InputCell(k)
       /\ newLines[k].npts = Len(InputCell(k))

\* a polyline above its minimum size, every interior vertex of which exceeds
\* MaximumError, has been emitted under the default TargetReduction
C12_Witness ==
  /\ cellIdx >= 1
  /\ Len(InputCell(1)) > MinimumCount(InputCell(1))
  /\ NoEligibleInterior(InputCell(1))
  /\ TargetReduction = DefaultTargetReduction

(***************************************************************************)
(* C18, as stated: a removable slot whose computed error exceeded          *)
(* MaximumError, at seeding or at a recomputation, is never in the queue   *)
(* again and is never removed for the rest of its polyline's reduction.    *)
(***************************************************************************)
C18_ExcludedForever ==
  pc \in {"reduce", "emit", "walk"}
  => /\ \A e \in PriorityQueue : e.id \notin excluded
     /\ currentNumPts < polylineSize => removed.idx \notin excluded

(***************************************************************************)
(* C18, amended: the exclusion lasts as long as the computed error stands. *)
(* During the reduction the queue holds exactly the still-linked removable *)
(* slots whose current error is within MaximumError, so a slot left out    *)
(* earlier is queued again when the removal of a neighbour brings its      *)
(* error within MaximumError, and no slot is removed with a current error  *)
(* above MaximumError.                                                     *)
(***************************************************************************)
C18_QueuedWhileWithinCeiling ==
  pc = "reduce"
  => /\ \A e \in PriorityQueue :
          e.id \in LinkedSlots(polyline) /\ polyline.Vertices[e.id].removable
     /\ \A v \in LinkedSlots(polyline) :
          polyline.Vertices[v].removable
          => ( (\E e \in PriorityQueue : e.id = v)
               <=> WithinMaximumError(ComputeError(inputPoints.pts, polyline, v),
                                      MaximumError) )
     /\ currentNumPts < polylineSize => WithinMaximumError(removed.error, MaximumError)

\* a slot whose error once exceeded MaximumError is in the queue again
C18_Witness ==
  /\ pc = "reduce"
  /\ \E e \in PriorityQueue : e.id \in excluded

(***************************************************************************)
(* C19: the vertex the reduce loop removes is, when it is removed, a       *)
(* lowest-error removable vertex of the polyline: no other still-linked    *)
(* interior vertex has a current error that is within MaximumError and     *)
(* strictly smaller than the error of the removed vertex.                  *)
(***************************************************************************)
C19_RemovedIsLowest ==
  removed.idx # NULL
  => \A r \in removed.rivals :
       ~ ( /\ WithinMaximumError(r.error, MaximumError)
           /\ ErrLess(r.error, removed.error) )

\* a vertex has been removed while another linked interior vertex had a
\* strictly larger error within MaximumError
C19_Witness ==
  /\ removed.idx # NULL
  /\ \E r \in removed.rivals :
       /\ WithinMaximumError(r.error, MaximumError)
       /\ ErrLess(removed.error, r.error)

(***************************************************************************)
(* C20: a vertex is removed only while the reduction achieved so far,      *)
(* 1 - currentCount / originalCount, is strictly less than TargetReduction *)
(* and the live count exceeds the minimum, 2 for an open polyline and 3    *)
(* for a loop; hence an output cell that lost vertices has at least the    *)
(* minimum count, and one vertex more had not yet met the target.          *)
(***************************************************************************)
C20_RemovedOnlyUnderGuard ==
  /\ removed.idx # NULL
     => /\ (removed.size - removed.cur) * TenthsPerUnit < TargetReduction * removed.size
        /\ removed.cur > (IF removed.isLoop THEN 3 ELSE 2)
  /\ \A k \in DoneCells :
       LET N == Len(InputCell(k))
           c == newLines[k].npts
       IN  c < N => /\ c >= MinimumCount(InputCell(k))
                    /\ (N - (c + 1)) * TenthsPerUnit < TargetReduction * N

\* under TargetReduction 0.5 a polyline of 4 vertices has lost two of them,
\* the second at a reduction of 0.25, and the reduction has ended
C20_Witness ==
  /\ pc = "emit"
  /\ TargetReduction = 5
  /\ removed.size = 4
  /\ removed.cur = 3
  /\ currentNumPts = 2

(***************************************************************************)
(* C14: AddPoint(x, y, midpoint, sharpness) with a midpoint or a sharpness *)
(* outside [0.0, 1.0] returns -1 and leaves the function as it was: no     *)
(* node removed, not even one at X = x, none added, the order of the nodes *)
(* and Range unchanged.                                                    *)
(***************************************************************************)
C14_RejectedAddPointChangesNothing ==
  [][ pwfCall'.op = "AddPoint"
      => \A y \in PwfYs, midpoint \in Midpoints, sharpness \in Sharpnesses :
           ( /\ \/ midpoint < 0
                \/ midpoint > TenthsPerUnit
                \/ sharpness < 0
                \/ sharpness > TenthsPerUnit
             /\ CallAddPoint(pwfCall'.x, y, midpoint, sharpness) )
           => /\ pwfCall'.ret = -1
              /\ Nodes' = Nodes
              /\ Range' = Range ]_vars

\* AddPoint has returned -1 on a function that holds a node at the X of the call
C14_Witness ==
  /\ pwfCall.op = "AddPoint"
  /\ pwfCall.ret = -1
  /\ \E i \in DOMAIN Nodes : Nodes[i].X = pwfCall.x
  /\ ~ AllowDuplicateScalars

(***************************************************************************)
(* C16: RemovePoint(x) returns -1 and changes nothing when no node has     *)
(* X = x; otherwise it removes one node, the first with X = x, returns the *)
(* index that node had, leaves one node less and keeps the other nodes in  *)
(* their order.                                                            *)
(***************************************************************************)
C16_RemovePointRemovesFirstAtX ==
  [][ (pwfCall'.op = "RemovePoint" /\ CallRemovePoint(pwfCall'.x))
      => LET x == pwfCall'.x
             hits == {i \in DOMAIN Nodes : Nodes[i].X = x}
             first == CHOOSE i \in hits : \A j \in hits : i <= j
         IN  IF hits = {}
             THEN /\ pwfCall'.ret = -1
                  /\ Nodes' = Nodes
                  /\ Range' = Range
             ELSE /\ pwfCall'.ret = first - 1
                  /\ Len(Nodes') = Len(Nodes) - 1
                  /\ Nodes' = [j \in 1 .. Len(Nodes) - 1 |->
                                 IF j < first THEN Nodes[j] ELSE Nodes[j + 1]] ]_vars

\* RemovePoint has removed the first of several nodes at the X of the call,
\* between two other nodes
C16_Witness ==
  /\ pwfCall.op = "RemovePoint"
  /\ pwfCall.ret = 1
  /\ Len(Nodes) = 2
  /\ Nodes[2].X = pwfCall.x
  /\ Nodes[1].X < pwfCall.x

(***************************************************************************)
(* C15: with AllowDuplicateScalars off, after a successful                 *)
(* AddPoint(x, y, midpoint, sharpness) exactly one node has X = x, it      *)
(* carries the y, midpoint and sharpness of the call, and the returned     *)
(* value is its index, whatever calls came before.                         *)
(***************************************************************************)
C15_AddPointLeavesOneNodeAtX ==
  [][ (pwfCall'.op = "AddPoint" /\ ~ AllowDuplicateScalars)
      => \A y \in PwfYs, midpoint \in Midpoints, sharpness \in Sharpnesses :
           ( /\ 0 <= midpoint /\ midpoint <= TenthsPerUnit
             /\ 0 <= sharpness /\ sharpness <= TenthsPerUnit
             /\ CallAddPoint(pwfCall'.x, y, midpoint, sharpness) )
           => LET x == pwfCall'.x
                  hits == {i \in DOMAIN Nodes' : Nodes'[i].X = x}
              IN  /\ Cardinality(hits) = 1
                  /\ \A i \in hits : /\ Nodes'[i] = NewNode(x, y, midpoint, sharpness)
                                     /\ pwfCall'.ret = i - 1 ]_vars

(***************************************************************************)
(* C17: after any sequence of SetNumberOfStates, SetState, NextState and   *)
(* PreviousState calls the state of a button representation is an          *)
(* integral value with 0 <= State < NumberOfStates.                        *)
(***************************************************************************)
C17_StateWithinNumberOfStates ==
  /\ State \in Int
  /\ 0 <= State
  /\ State < NumberOfStates

(***************************************************************************)
(* C21: at every iteration of the reduce loop the queue holds at most one  *)
(* entry per slot, only for slots still linked and removable, and the      *)
(* priority of each entry is the error of its slot against the slot's      *)
(* current prev and next and is within MaximumError: no entry computed     *)
(* against a former neighbour remains.                                     *)
(***************************************************************************)
C21_QueueEntriesFresh ==
  pc = "reduce"
  => /\ \A e, f \in PriorityQueue : e.id = f.id => e = f
     /\ \A e \in PriorityQueue :
          /\ e.id \in LinkedSlots(polyline)
          /\ polyline.Vertices[e.id].removable
          /\ e.priority = ComputeError(inputPoints.pts, polyline, e.id)
          /\ ~ RatLess(SquareOf(MaximumError), 1, e.priority[1], e.priority[2])

\* after a removal the queue holds an entry whose priority is no longer the
\* error its slot had when the polyline was seeded
C21_Witness ==
  /\ pc = "reduce"
  /\ currentNumPts < polylineSize
  /\ \E e \in PriorityQueue :
       e.priority # ComputeError(inputPoints.pts,
                                 PolylineNew(CurrentCell, Len(CurrentCell)), e.id)

(***************************************************************************)
(* C22: Polyline::Remove is invoked only on a slot that is still linked    *)
(* and has both a prev and a next, hence never on slot 0 or slot N-1 and   *)
(* never twice on one slot: the identifier popped from the queue is never  *)
(* an endpoint and never an already removed slot.                          *)
(***************************************************************************)
C22_RemoveOnLinkedInterior ==
  removed.idx # NULL
  => /\ removed.linked
     /\ removed.prev # NULL
     /\ removed.next # NULL
     /\ removed.idx # 0
     /\ removed.idx # removed.size - 1

\* the second removal of a polyline has been made, on a slot other than the
\* one that went first and next to it
C22_Witness ==
  /\ pc = "reduce"
  /\ currentNumPts = polylineSize - 2
  /\ removed.linked
  /\ removed.idx \notin LinkedSlots(polyline)
  /\ \/ removed.prev # removed.idx - 1
     \/ removed.next # removed.idx + 1

(***************************************************************************)
(* C23: after any removals made by the reduce loop, following next from    *)
(* slot 0 visits exactly Size slots, in strictly increasing slot index,    *)
(* and ends at slot N-1, whose next is null; on the visited slots prev is  *)
(* the inverse of next; no removed slot is visited.                        *)
(***************************************************************************)
C23_LinkedListWellFormed ==
  pc \in {"reduce", "emit", "walk"}
  => LET w == WalkSeq(polyline, 0)
     IN  /\ Len(w) = polyline.Size
         /\ Len(w) = currentNumPts
         /\ \A i \in 1 .. Len(w) - 1 :
              /\ w[i] < w[i + 1]
              /\ polyline.Vertices[w[i + 1]].prev = w[i]
         /\ polyline.Vertices[w[1]].prev = NULL
         /\ w[Len(w)] = polylineSize - 1
         /\ polyline.Vertices[polylineSize - 1].next = NULL
         /\ currentNumPts < polylineSize
            => /\ Cardinality(removed.slots) = polylineSize - currentNumPts
               /\ \A i \in 1 .. Len(w) : w[i] \notin removed.slots

\* two slots have been removed from a polyline of four and the walk from
\* slot 0 goes straight to slot 3
C23_Witness ==
  /\ pc = "emit"
  /\ polylineSize = 4
  /\ removed.slots = {1, 2}
  /\ WalkSeq(polyline, 0) = << 0, 3 >>

(***************************************************************************)
(* C24: every processed polyline gets exactly one output cell, in input    *)
(* cell order, and the vertex count declared for the cell, the running     *)
(* count currentNumPts, equals the live Size of the polyline and the       *)
(* number of point identifiers the emit walk puts into the cell.           *)
(***************************************************************************)
C24_OneCellPerPolyline ==
  /\ pc \in {"loop", "seed", "reduce", "emit"} => Len(newLines) = cellIdx
  /\ pc = "walk" => Len(newLines) = cellIdx + 1
  /\ pc \in {"emit", "walk"} => currentNumPts = polyline.Size
  /\ (pc = "walk" /\ vertex = NULL)
     => /\ newLines[Len(newLines)].npts = polyline.Size
        /\ Len(newLines[Len(newLines)].pts) = polyline.Size
  /\ \A k \in DoneCells :
       /\ newLines[k].npts = Len(newLines[k].pts)
       /\ newLines[k].npts = Len(walked[k])
       /\ walked[k][1] = InputCell(k)[1]
       /\ IsSubseq(walked[k], InputCell(k))

\* two polylines have been processed, the first of which lost a vertex
C24_Witness ==
  /\ pc = "loop"
  /\ cellIdx = 2
  /\ Len(newLines) = 2
  /\ newLines[1].npts < Len(InputCell(1))
  /\ InputCell(1) # InputCell(2)

(***************************************************************************)
(* C25: the original point identifiers behind an output cell form a        *)
(* subsequence of the identifier sequence of the input cell: the surviving *)
(* vertices keep their input order and no identifier foreign to the input  *)
(* cell appears.                                                           *)
(***************************************************************************)
C25_OutputIsSubsequence ==
  \A k \in DoneCells :
    /\ IsSubseq(Origins(k), InputCell(k))
    /\ \A i \in 1 .. Len(Origins(k)) :
         \E j \in 1 .. Len(InputCell(k)) : Origins(k)[i] = InputCell(k)[j]

\* a polyline has lost a vertex and kept three, in their input order
C25_Witness ==
  /\ cellIdx >= 1
  /\ Len(InputCell(1)) = 4
  /\ Len(Origins(1)) = 3
  /\ Origins(1)[2] # InputCell(1)[2]

\* output cell k was emitted while the loop condition of lines 213-216 still held
StoppedShort(k) ==
  WhileCondition(Len(newLines[k].pts), Len(InputCell(k)),
                 IsLoopCell(InputCell(k)), TargetReduction)

(***************************************************************************)
(* C26: a polyline whose queue ran empty while the loop condition still    *)
(* held reaches the emit with an empty queue, its cell takes every slot    *)
(* still linked, the polylines after it are processed as well, and         *)
(* RequestData returns 1.                                                  *)
(***************************************************************************)
C26_ExhaustionIsSilent ==
  /\ (/\ pc \in {"emit", "walk"}
      /\ WhileCondition(currentNumPts, polylineSize, polyline.IsLoop, TargetReduction))
     => /\ PriorityQueue = {}
        /\ currentNumPts = Cardinality(LinkedSlots(polyline))
        /\ result = NULL
  /\ (/\ pc = "walk"
      /\ vertex = NULL
      /\ WhileCondition(currentNumPts, polylineSize, polyline.IsLoop, TargetReduction))
     => /\ walked[cellIdx + 1]
             = [i \in 1 .. currentNumPts |->
                  polyline.Vertices[WalkSeq(polyline, 0)[i]].id]
        /\ Len(newLines[cellIdx + 1].pts) = currentNumPts
  /\ (pc = "done" /\ aborted = NULL /\ ~ NothingToDo)
     => /\ cellIdx = numLines
        /\ Len(output.Lines) = numLines
        /\ result = 1

\* the run has returned; its first polyline stopped short of the target with
\* a vertex removed, and a second polyline was processed after it
C26_Witness ==
  /\ pc = "done"
  /\ result = 1
  /\ cellIdx = 2
  /\ StoppedShort(1)
  /\ Len(newLines[1].pts) < Len(InputCell(1))
  /\ Len(output.Lines) = 2

\* the removable slots of the live polyline that are still linked
RemainingInterior ==
  {v \in LinkedSlots(polyline) : polyline.Vertices[v].removable}

(***************************************************************************)
(* C27: the queue misses no candidate: while a polyline is reduced, every  *)
(* still-linked removable slot whose current error is within MaximumError  *)
(* has an entry.  So when the reduction ends with the loop condition still *)
(* true, that is before the target and above the minimum count, every      *)
(* remaining interior vertex has a current error above MaximumError.       *)
(***************************************************************************)
C27_QueueComplete ==
  /\ pc = "reduce"
     => \A v \in RemainingInterior :
          WithinMaximumError(ComputeError(inputPoints.pts, polyline, v), MaximumError)
          => \E e \in PriorityQueue : e.id = v
  /\ (/\ pc = "emit"
      /\ WhileCondition(currentNumPts, polylineSize, polyline.IsLoop, TargetReduction))
     => \A v \in RemainingInterior :
          LET error == ComputeError(inputPoints.pts, polyline, v)
          IN  RatLess(SquareOf(MaximumError), 1, error[1], error[2])

\* the reduction ended early after a removal, with an interior vertex left
C27_Witness ==
  /\ pc = "emit"
  /\ WhileCondition(currentNumPts, polylineSize, polyline.IsLoop, TargetReduction)
  /\ currentNumPts < polylineSize
  /\ RemainingInterior # {}

\* the identifier sequences the while loop of lines 213-249 can leave of
\* polyline pl with queue q, cur vertices left of size
RECURSIVE SurvivorsFrom(_, _, _, _)
SurvivorsFrom(pl, q, cur, size) ==
  IF ~ WhileCondition(cur, size, pl.IsLoop, TargetReduction) \/ q = {}
  THEN {[i \in 1 .. Len(WalkSeq(pl, 0)) |-> pl.Vertices[WalkSeq(pl, 0)[i]].id]}
  ELSE UNION {LET pl1 == Remove(pl, popped.id)
                  q0 == q \ {popped}
                  q1 == UpdateNeighbour(q0, inputPoints.pts, pl1, MaximumError,
                                        pl1.Vertices[popped.id].prev)
                  q2 == UpdateNeighbour(q1, inputPoints.pts, pl1, MaximumError,
                                        pl1.Vertices[popped.id].next)
              IN  SurvivorsFrom(pl1, q2, cur - 1, size) :
              popped \in PopCandidates(q)}

\* the identifier sequences RequestData can leave of a cell that is processed
\* from an empty queue
SurvivorsAlone(cell) ==
  LET pl == PolylineNew(cell, Len(cell))
  IN  SurvivorsFrom(pl, SeedQueue({}, inputPoints.pts, pl, MaximumError, 0),
                    Len(cell), Len(cell))

(***************************************************************************)
(* C28: the queue is empty whenever the loop over the polylines is at its  *)
(* head and when the seeding of a polyline begins, also after a polyline   *)
(* that ended with entries left, so the identifier sequence that survives  *)
(* of a cell is one that the cell yields on its own, from an empty queue,  *)
(* with the same points and configuration.  The sequence of a cell is      *)
(* looked at when the loop returns to its head after the cell; it does not *)
(* change afterwards.                                                      *)
(***************************************************************************)
C28_QueueEmptyAtSeeding ==
  /\ pc \in {"loop", "seed"} => PriorityQueue = {}
  /\ (pc = "loop" /\ cellIdx >= 1)
     => walked[cellIdx] \in SurvivorsAlone(InputCell(cellIdx))

\* the seeding of the second polyline begins; the first, a loop, stopped at
\* the minimum count of three with its other interior vertex still queued
C28_Witness ==
  /\ pc = "seed"
  /\ cellIdx = 1
  /\ IsLoopCell(InputCell(1))
  /\ Len(InputCell(1)) = 4
  /\ Len(walked[1]) = 3
  /\ MaximumError = VTK_DOUBLE_MAX
  /\ PriorityQueue = {}

\* the positions of the current prev and next of slot v coincide
NeighboursCoincide(v) ==
  Distance2BetweenPoints(
    inputPoints.pts[polyline.Vertices[polyline.Vertices[v].prev].id],
    inputPoints.pts[polyline.Vertices[polyline.Vertices[v].next].id]) = 0

\* the squared distance of slot v from its current prev
Distance2ToPrev(v) ==
  Distance2BetweenPoints(
    inputPoints.pts[polyline.Vertices[v].id],
    inputPoints.pts[polyline.Vertices[polyline.Vertices[v].prev].id])

(***************************************************************************)
(* C29: a still-linked removable slot whose current prev and next are at   *)
(* the same position has error 0, wherever the slot itself lies, and is    *)
(* therefore queued with priority 0 under every MaximumError of the run.   *)
(***************************************************************************)
C29_CoincidingNeighboursGiveZero ==
  pc = "reduce"
  => \A v \in RemainingInterior :
       NeighboursCoincide(v)
       => /\ ComputeError(inputPoints.pts, polyline, v) = << 0, 1 >>
          /\ WithinMaximumError(ComputeError(inputPoints.pts, polyline, v), MaximumError)
          /\ [priority |-> << 0, 1 >>, id |-> v] \in PriorityQueue

\* a queued slot between coinciding neighbours lies farther from them than
\* MaximumError
C29_Witness ==
  /\ pc = "reduce"
  /\ MaximumError # VTK_DOUBLE_MAX
  /\ \E v \in RemainingInterior :
       /\ NeighboursCoincide(v)
       /\ Distance2ToPrev(v) > SquareOf(MaximumError)
       /\ \E e \in PriorityQueue : e.id = v

\* the original identifiers met by the emit walks so far, in the order met
RECURSIVE MetSoFar(_)
MetSoFar(cells) ==
  IF cells = << >> THEN << >> ELSE Head(cells) \o MetSoFar(Tail(cells))

\* a sequence without the later occurrences of its elements
RECURSIVE FirstMet(_)
FirstMet(s) ==
  IF s = << >> THEN << >>
  ELSE LET front == FirstMet(SubSeq(s, 1, Len(s) - 1))
           last == s[Len(s)]
       IN  IF \E i \in 1 .. Len(front) : front[i] = last
           THEN front
           ELSE Append(front, last)

(***************************************************************************)
(* C30: output point n has the coordinates of the original identifier it   *)
(* was created for and carries that identifier's per-point record; no      *)
(* original identifier has two output points; and the output points        *)
(* 0, 1, 2, ... stand for the original identifiers in the order in which   *)
(* the emit walks first meet them.                                         *)
(***************************************************************************)
C30_PointsInFirstMetOrder ==
  pc \in {"loop", "seed", "reduce", "emit", "walk", "finish", "done"}
  => /\ Len(outPD) = Len(newPts)
     /\ \A n \in 1 .. Len(newPts) : newPts[n] = inputPoints.pts[outPD[n]]
     /\ \A n1, n2 \in 1 .. Len(outPD) : outPD[n1] = outPD[n2] => n1 = n2
     /\ outPD = FirstMet(MetSoFar(walked))
     /\ \A id \in DOMAIN pointIdMap : outPD[pointIdMap[id] + 1] = id

\* two polylines are done, an identifier was met more than once, and the
\* first output point is not the point of original identifier 0
C30_Witness ==
  /\ pc = "loop"
  /\ cellIdx = 2
  /\ Len(outPD) < Len(MetSoFar(walked))
  /\ Len(outPD) >= 3
  /\ outPD[1] # 0
  /\ \E n \in 1 .. Len(outPD) : outPD[n] = 0

\* the elements of a sequence
Elements(s) == {s[i] : i \in 1 .. Len(s)}

\* the entries of the output cells done so far, as pairs of cell and position
DoneEntries ==
  UNION {{<< k, i >> : i \in 1 .. Len(newLines[k].pts)} : k \in DoneCells}

(***************************************************************************)
(* C31: between two polylines and at the end of the run the map from       *)
(* original to new identifiers is injective, the output point set has      *)
(* exactly one point for each original identifier that survives in a       *)
(* processed polyline and none for any other, two entries of the output    *)
(* cells are equal exactly when the original identifiers behind them are   *)
(* equal, and the cell of a loop begins and ends with the same entry.      *)
(***************************************************************************)
C31_MappingInjective ==
  pc \in {"loop", "finish", "done"}
  => /\ \A a, b \in DOMAIN pointIdMap : pointIdMap[a] = pointIdMap[b] => a = b
     /\ DOMAIN pointIdMap = Elements(MetSoFar(walked))
     /\ Len(newPts) = Cardinality(DOMAIN pointIdMap)
     /\ Elements(outPD) = DOMAIN pointIdMap
     /\ \A e, f \in DoneEntries :
          (newLines[e[1]].pts[e[2]] = newLines[f[1]].pts[f[2]])
          <=> (walked[e[1]][e[2]] = walked[f[1]][f[2]])
     /\ \A k \in DoneCells :
          IsLoopCell(InputCell(k))
          => newLines[k].pts[1] = newLines[k].pts[Len(newLines[k].pts)]

\* the run is over: a loop that lost a vertex kept by no polyline was
\* processed, an input point is used by no line, and a point is shared
C31_Witness ==
  /\ pc = "done"
  /\ cellIdx = 2
  /\ IsLoopCell(InputCell(1))
  /\ Len(InputCell(1)) = 4
  /\ \E id \in Elements(InputCell(1)) : id \notin DOMAIN pointIdMap
  /\ \E id \in DOMAIN inputPoints.pts :
       id \notin Elements(InputCell(1)) \cup Elements(InputCell(2))
  /\ Elements(walked[1]) \cap Elements(walked[2]) # {}

(***************************************************************************)
(* RequestData runs on one thread from its entry to its return: a step     *)
(* that can be taken is taken.                                             *)
(***************************************************************************)
SpecFair == Init /\ [][Next]_vars /\ WF_vars(Next)

(***************************************************************************)
(* C32: RequestData terminates.  The reduce loop of a polyline of N        *)
(* vertices removes at most N-2 of them (none when N < 2), and every run   *)
(* reaches the return of RequestData with result 1.                        *)
(***************************************************************************)
C32_Terminates ==
  /\ [](pc = "reduce"
        => polylineSize - currentNumPts
             <= (IF polylineSize >= 2 THEN polylineSize - 2 ELSE 0))
  /\ <>(pc = "done" /\ result = 1)

\* the run has returned after a polyline of four vertices took two iterations
C32_Witness ==
  /\ pc = "done"
  /\ cellIdx = 1
  /\ Len(InputCell(1)) = 4
  /\ Len(walked[1]) = 2
  /\ removed.cur = 3

(***************************************************************************)
(* C33: whatever public mutating operations of vtkPiecewiseFunction have   *)
(* been called, the nodes are in non-decreasing order of X.                *)
(***************************************************************************)
C33_NodesSortedByX ==
  \A i \in 1 .. Len(Nodes) - 1 : Nodes[i].X <= Nodes[i + 1].X

\* BuildFunctionFromTable was given xStart > xEnd: the node made from the
\* second table entry stands first
C33_Witness ==
  /\ pwfCall.op = "BuildFunctionFromTable"
  /\ Len(Nodes) = 2
  /\ Nodes[1].Y = BuildTable[2]
  /\ Nodes[2].Y = BuildTable[1]
  /\ Nodes[1].X < Nodes[2].X

(***************************************************************************)
(* C34: whatever public mutating operations of vtkPiecewiseFunction have   *)
(* been called, Range is the pair of the X of the first node and the X of  *)
(* the last node when the function has nodes, and the pair 0, 0 when it    *)
(* has none.                                                               *)
(***************************************************************************)
C34_RangeSpansNodes ==
  Range = (IF Len(Nodes) > 0 THEN << Nodes[1].X, Nodes[Len(Nodes)].X >> ELSE << 0, 0 >>)

(***************************************************************************)
(* C35: RemovePointByIndex(id) returns false and changes nothing when id   *)
(* is not the index of a node, that is for every id >= GetSize(); for the  *)
(* index of a node it removes that node, keeps the others in their order   *)
(* and returns true.                                                       *)
(***************************************************************************)
C35_RemovePointByIndexChecksIndex ==
  [][ pwfCall'.op = "RemovePointByIndex"
      => LET id == pwfCall'.x
         IN  IF id >= Len(Nodes)
             THEN /\ pwfCall'.ret = 0
                  /\ Nodes' = Nodes
                  /\ Range' = Range
             ELSE /\ pwfCall'.ret = 1
                  /\ Nodes' = EraseAt(Nodes, id) ]_vars

(***************************************************************************)
(* C36: after DeepCopy(f) or ShallowCopy(f) the receiver has the node      *)
(* sequence of f, node for node, whatever it held before and whatever its  *)
(* AllowDuplicateScalars is.                                               *)
(***************************************************************************)
C36_CopyHasSameNodes ==
  [][ pwfCall'.op \in {"DeepCopy", "ShallowCopy"} => Nodes' = pwfCall'.x ]_vars

\* the nodes of a sequence with X below x1 or above x2, in their order
NodesOutside(nodes, x1, x2) ==
  SelectSeq(nodes, LAMBDA n : n.X < x1 \/ n.X > x2)

(***************************************************************************)
(* C37: after AddSegment(x1, y1, x2, y2) with x1 < x2 the nodes with X in  *)
(* [x1, x2] are two, (x1, y1) and (x2, y2) in this order, both of midpoint *)
(* 0.5 and sharpness 0, and the nodes that had X outside [x1, x2] are      *)
(* there as before, in their order.                                        *)
(***************************************************************************)
C37_AddSegmentReplacesRange ==
  [][ pwfCall'.op = "AddSegment"
      => LET x1 == pwfCall'.x[1]
             y1 == pwfCall'.x[2]
             x2 == pwfCall'.x[3]
             y2 == pwfCall'.x[4]
         IN  x1 < x2
             => /\ SelectSeq(Nodes', LAMBDA n : n.X >= x1 /\ n.X <= x2)
                     = << NewNode(x1, y1, 5, 0), NewNode(x2, y2, 5, 0) >>
                /\ NodesOutside(Nodes', x1, x2) = NodesOutside(Nodes, x1, x2) ]_vars

\* AddSegment(1, 0, 2, 1) has been called on a function with a node below
\* the segment: three nodes, the first outside the segment
C37_Witness ==
  /\ pwfCall.op = "AddSegment"
  /\ pwfCall.x = << 1, 0, 2, 1 >>
  /\ Len(Nodes) = 3
  /\ Nodes[1].X = 0

(***************************************************************************)
(* C38: after AdjustRange(range) with range[0] <= range[1] has returned 1  *)
(* a node has X = range[0], a node has X = range[1], no node has X outside *)
(* [range[0], range[1]], and Range is the given range.                    *)
(***************************************************************************)
C38_AdjustRangeFitsNodes ==
  [][ (pwfCall'.op = "AdjustRange" /\ pwfCall'.ret = 1)
      => LET range == pwfCall'.x
         IN  range[1] <= range[2]
             => /\ \E i \in DOMAIN Nodes' : Nodes'[i].X = range[1]
                /\ \E i \in DOMAIN Nodes' : Nodes'[i].X = range[2]
                /\ \A i \in DOMAIN Nodes' :
                     range[1] <= Nodes'[i].X /\ Nodes'[i].X <= range[2]
                /\ Range' = range ]_vars

\* AdjustRange(<< 1, 2 >>) has returned 1 and has left three nodes, two of
\* them at one end of the range
C38_Witness ==
  /\ pwfCall.op = "AdjustRange"
  /\ pwfCall.ret = 1
  /\ pwfCall.x = << 1, 2 >>
  /\ Range = << 1, 2 >>
  /\ Len(Nodes) = 3

====
